---- MODULE Spec2Model ----
(***************************************************************************)
(* The hype-detection and rate-limiting engine of the Twitch hype bot.     *)
(*                                                                         *)
(* The repository holds several variants of one program.  Three are        *)
(* modelled here, selected by the variable `variant`:                      *)
(*   "app.js"    src/app.js: window, detector, throttle, limiter;          *)
(*   "part_000"  src/unnamed/part_000 lines 1-350: the same plus the       *)
(*               message filter, the emote substitution, the delayed send  *)
(*               and the periodic disposal of all windows;                 *)
(*   "README.md" the listing of src/README.md lines 438-940: part_000 with *)
(*               an awaited statistics write, the sliding sentiment window *)
(*               and the daily tallies.                                    *)
(*                                                                         *)
(* Time is kept relative: an "age" is the time elapsed since an instant    *)
(* (-1 when the instant never happened), a timer is the time left until it *)
(* is due (-1 when it is not armed).  Ages saturate at the largest value   *)
(* the code compares them with.  A due timer fires at or after its         *)
(* deadline: time may advance past it, as the event loop allows.  Date.now *)
(* is taken to be monotone.                                                *)
(***************************************************************************)
EXTENDS Integers, Sequences, FiniteSets, TLC

VARIABLES
    variant,        \* which program runs
    messageQueues,  \* let messageQueues = {}: channel name -> array of bodies
    lastArgs,       \* _.throttle closure: arguments of a call not yet invoked
    lastCallAge,    \* _.throttle closure: now - lastCallTime
    lastInvokeAge,  \* _.throttle closure: now - lastInvokeTime
    timerId,        \* _.throttle closure: time left on its timer
    isCalled,       \* limiter closure: the busy flag
    calls,          \* limiter closure: the queued bound calls <<msg, channel>>
    limiterTimers,  \* pending setTimeout callbacks of the limiter, oldest first
    sendTimers,     \* pending setTimeout callbacks of chat.say (part_000)
    sent,           \* the transport: the arguments of chat.send, in order
    janitorTimer,   \* time left to the next firing of the disposal interval
    hypeLog,        \* console lines of beginHype / sendHypeMessage
    submitted,      \* observer: the arguments of every chat.say call, in order
    executed,       \* observer: the bound calls the limiter has run, in order
    execAge,        \* observer: time since the limiter last ran a call
    lastHypeCall,   \* observer: the last call of the throttled function
    hypeCallAge,    \* observer: time since that call
    hypeAge,        \* observer: time since beginHype last ran
    dryRun,         \* the value of the constant DRY_RUN the program runs with
    db,             \* the statistics database: "up", "failing" or "stalled"
    statsOutcome,   \* observer: how the last statistics write ended
    handlerExit,    \* observer: how the last PRIVMSG handler ended
    awaiting,       \* sendHypeMessage calls suspended at their await (README)
    dailyPositiveCount, \* let dailyPositiveCount = 0
    dailyNegativeCount, \* let dailyNegativeCount = 0
    messageWindow,  \* let messageWindow = []: entries [age, type], oldest first
    windowTimer,    \* time left to the next firing of the window interval
    movingAverage,  \* observer: what the last updateMessageWindow reported
    tallied,       \* observer: the qualifying messages counted so far
    resetInFlight,  \* resetDailyTallies calls suspended at their await
    dailyDocs,      \* the daily documents stored in hype_stats, in order
    lastIndex,      \* REGEX_CONTAINS_URI.lastIndex
    engaged,        \* observer: the arguments of the recordUserChatStats
                    \* calls made by sendHypeMessage, in order
    chatSend,       \* the transport: "ok", or "raises" when chat.send throws
    raised,         \* observer: the bound calls that raised in the limiter
    uncaught,       \* an exception left a timer callback: the process ended
    resetErrors     \* observer: the console.error lines of resetDailyTallies

vars == <<variant, messageQueues, lastArgs, lastCallAge, lastInvokeAge, timerId,
          isCalled, calls, limiterTimers, sendTimers, sent, janitorTimer,
          hypeLog, submitted, executed, execAge, lastHypeCall, hypeCallAge,
          hypeAge, dryRun, db, statsOutcome, handlerExit, awaiting,
          dailyPositiveCount, dailyNegativeCount, messageWindow, windowTimer,
          movingAverage, tallied, resetInFlight, dailyDocs, lastIndex,
          engaged, chatSend, raised, uncaught, resetErrors>>

envVars == <<dryRun, db, chatSend, uncaught>>
regexVars == <<lastIndex>>
handlerObs == <<statsOutcome, handlerExit>>
throttleVars == <<lastArgs, lastCallAge, lastInvokeAge, timerId>>
limiterVars == <<isCalled, calls, limiterTimers>>
transportVars == <<sendTimers, sent>>
limiterObs == <<submitted, executed, execAge, raised>>
hypeObs == <<hypeLog, lastHypeCall, hypeCallAge, hypeAge, awaiting, engaged>>
tallyVars == <<dailyPositiveCount, dailyNegativeCount, tallied>>
sentimentVars == <<tallyVars, messageWindow, movingAverage>>
resetVars == <<resetInFlight, dailyDocs, resetErrors>>
extendedVars == <<sentimentVars, resetVars, windowTimer>>

----------------------------------------------------------------------------
(* Bounds of the model *)

\* hype lines printed before the inbound stream is cut off
MaxHype == 2
\* chat.say calls made by the limiter's direct driver
MaxSay == 4
\* clock granularity (ms) of the system specification
SystemStep == 5000
\* clock granularity (ms) of the limiter specification
LimiterStep == 500
\* clock granularity (ms) of the window specification
WindowStep == 20000
\* clock granularity (ms) of the specification of the README listing
ReadmeStep == 30000
\* failed runs of resetDailyTallies after which the cron job still fires
MaxFailedResets == 1
\* runs of resetDailyTallies
MaxResets == 1
\* qualifying messages counted by the sentiment specification
MaxCounted == 2
\* clock granularity (ms) of the sentiment specification
SentimentStep == 30000

----------------------------------------------------------------------------
(* Configuration *)

AppJs == "app.js"
HypeDb == "part_000"
Readme == "README.md"
Variants == {AppJs, HypeDb}

DRY_RUN == FALSE

MIN_MSG_LEN == 1
MAX_MSG_LEN == 200
MAX_QUEUE_LEN == 7
APP_HYPE_THRESHOLD == 2
APP_HYPE_THROTTLE == 10000

HYPE_MIN_MSG_LEN == 1
HYPE_MAX_MSG_LEN == 200
HYPE_MAX_QUEUE_LEN == 8
DB_HYPE_THRESHOLD == 3
DB_HYPE_THROTTLE == 20000
MSG_SEND_DELAY == 150
HYPE_USER_IGNORE_LIST == <<"nightbot">>

README_HYPE_MIN_MSG_LEN == 1
README_HYPE_MAX_MSG_LEN == 256
README_HYPE_MAX_QUEUE_LEN == 10
README_HYPE_THRESHOLD == 5
README_HYPE_THROTTLE == 30000
WINDOW_SIZE_MS == 60000

\* the second argument of limiter(fn, 1500)
LIMITER_WAIT == 1500

MinMsgLen ==
    CASE variant = AppJs -> MIN_MSG_LEN
      [] variant = HypeDb -> HYPE_MIN_MSG_LEN
      [] OTHER -> README_HYPE_MIN_MSG_LEN
MaxMsgLen ==
    CASE variant = AppJs -> MAX_MSG_LEN
      [] variant = HypeDb -> HYPE_MAX_MSG_LEN
      [] OTHER -> README_HYPE_MAX_MSG_LEN
MaxQueueLen ==
    CASE variant = AppJs -> MAX_QUEUE_LEN
      [] variant = HypeDb -> HYPE_MAX_QUEUE_LEN
      [] OTHER -> README_HYPE_MAX_QUEUE_LEN
HYPE_THRESHOLD ==
    CASE variant = AppJs -> APP_HYPE_THRESHOLD
      [] variant = HypeDb -> DB_HYPE_THRESHOLD
      [] OTHER -> README_HYPE_THRESHOLD
HYPE_THROTTLE ==
    CASE variant = AppJs -> APP_HYPE_THROTTLE
      [] variant = HypeDb -> DB_HYPE_THROTTLE
      [] OTHER -> README_HYPE_THROTTLE
HYPE_DEQUEUE_TIMER == HYPE_THROTTLE * 2

\* process.env.TWITCH_USERNAME
TWITCH_USERNAME == "hypebot"

----------------------------------------------------------------------------
(* Strings *)

Min(a, b) == IF a < b THEN a ELSE b
Max(a, b) == IF a > b THEN a ELSE b

\* s.charAt(i), i counted from 0
charAt(s, i) == IF i >= 0 /\ i < Len(s) THEN SubSeq(s, i + 1, i + 1) ELSE ""

RECURSIVE Repeat(_, _)
Repeat(s, n) ==
    IF n <= 0 THEN ""
    ELSE IF n = 1 THEN s
    ELSE LET half == Repeat(s, n \div 2)
         IN half \o half \o (IF n % 2 = 1 THEN s ELSE "")

UpperCase == "ABCDEFGHIJKLMNOPQRSTUVWXYZ"
LowerCase == "abcdefghijklmnopqrstuvwxyz"

lowerChar(c) ==
    IF \E i \in 0..25 : charAt(UpperCase, i) = c
    THEN charAt(LowerCase, CHOOSE i \in 0..25 : charAt(UpperCase, i) = c)
    ELSE c

RECURSIVE toLowerCase(_)
toLowerCase(s) ==
    IF Len(s) = 0 THEN ""
    ELSE lowerChar(charAt(s, 0)) \o toLowerCase(SubSeq(s, 2, Len(s)))

\* s.substring(start, end): both clamped to [0, length], swapped when start > end
substring(s, start, end) ==
    LET a == Max(0, Min(start, Len(s)))
        b == Max(0, Min(end, Len(s)))
    IN SubSeq(s, Min(a, b) + 1, Max(a, b))

\* s.replace('#', ''): the first '#' removed
stripHash(s) ==
    IF \E i \in 0..(Len(s) - 1) : charAt(s, i) = "#"
    THEN LET k == CHOOSE i \in 0..(Len(s) - 1) :
                     /\ charAt(s, i) = "#"
                     /\ \A j \in 0..(i - 1) : charAt(s, j) # "#"
         IN SubSeq(s, 1, k) \o SubSeq(s, k + 2, Len(s))
    ELSE s

includes(list, x) == \E i \in 1..Len(list) : list[i] = x

\* s.includes(t) of a string
stringIncludes(s, t) ==
    \E i \in 1..(Len(s) - Len(t) + 1) : SubSeq(s, i, i + Len(t) - 1) = t

----------------------------------------------------------------------------
(* The URI pattern of part_000.  The pattern is written as a string literal,
   where the escapes \/ and \w denote the plain characters / and w, so the
   regular expression compiled is
     (http|ftp|https)://([w_-]+(?:.[w_-]+)+)([w.,@?^=%&:/~+#-]*[w@?^=%&/~+#-]) *)

HostChars == {"w", "_", "-"}
TailChars == {"w", ".", ",", "@", "?", "^", "=", "%", "&", ":", "/", "~", "+", "#", "-"}
LastChars == {"w", "@", "?", "^", "=", "%", "&", "/", "~", "+", "#", "-"}
LineTerminators == {"\n", "\r"}

startsWithAt(s, i, prefix) ==
    /\ i + Len(prefix) <= Len(s)
    /\ SubSeq(s, i + 1, i + Len(prefix)) = prefix

RECURSIVE uriTail(_, _)
\* [w.,@?^=%&:/~+#-]*[w@?^=%&/~+#-] from position i
uriTail(s, i) ==
    /\ i < Len(s)
    /\ \/ charAt(s, i) \in LastChars
       \/ charAt(s, i) \in TailChars /\ uriTail(s, i + 1)

RECURSIVE uriHost(_, _, _)
\* [w_-]+(?:.[w_-]+)+ followed by the tail; st is the position in the pattern:
\* 1 inside the first run, 2 right after a dot, 3 inside a run after a dot
uriHost(s, i, st) ==
    \/ st = 3 /\ uriTail(s, i)
    \/ /\ i < Len(s)
       /\ \/ /\ charAt(s, i) \in HostChars
             /\ uriHost(s, i + 1, IF st = 1 THEN 1 ELSE 3)
          \/ /\ st \in {1, 3}
             /\ charAt(s, i) \notin LineTerminators
             /\ uriHost(s, i + 1, 2)

\* REGEX_CONTAINS_URI.test(s)
REGEX_CONTAINS_URI(s) ==
    \E i \in 0..(Len(s) - 1) :
        \E scheme \in {"http", "ftp", "https"} :
            /\ startsWithAt(s, i, scheme \o "://")
            /\ LET p == i + Len(scheme) + 3
               IN /\ p < Len(s)
                  /\ charAt(s, p) \in HostChars
                  /\ uriHost(s, p + 1, 1)

----------------------------------------------------------------------------
(* The URI pattern as README.md writes it, with its escapes:
   (http|ftp|https):\/\/([\w_-]+(?:\.[\w_-]+)+)([\w.,@?^=%&:/~+#-]*[\w@?^=%&/~+#-]) *)

Word == "abcdefghijklmnopqrstuvwxyzABCDEFGHIJKLMNOPQRSTUVWXYZ0123456789_"
WordChars == {charAt(Word, i) : i \in 0..(Len(Word) - 1)}
ReadmeHostChars == WordChars \cup {"-"}
ReadmeTailChars ==
    WordChars \cup {".", ",", "@", "?", "^", "=", "%", "&", ":", "/", "~", "+", "#", "-"}
ReadmeLastChars ==
    WordChars \cup {"@", "?", "^", "=", "%", "&", "/", "~", "+", "#", "-"}

RECURSIVE readmeTail(_, _)
\* [\w.,@?^=%&:/~+#-]*[\w@?^=%&/~+#-] from position i
readmeTail(s, i) ==
    /\ i < Len(s)
    /\ \/ charAt(s, i) \in ReadmeLastChars
       \/ charAt(s, i) \in ReadmeTailChars /\ readmeTail(s, i + 1)

RECURSIVE readmeHost(_, _, _)
\* [\w_-]+(?:\.[\w_-]+)+ followed by the tail; st as in uriHost
readmeHost(s, i, st) ==
    \/ st = 3 /\ readmeTail(s, i)
    \/ /\ i < Len(s)
       /\ \/ /\ charAt(s, i) \in ReadmeHostChars
             /\ readmeHost(s, i + 1, IF st = 1 THEN 1 ELSE 3)
          \/ /\ st \in {1, 3}
             /\ charAt(s, i) = "."
             /\ readmeHost(s, i + 1, 2)

\* README.md's REGEX_CONTAINS_URI.test(s)
README_CONTAINS_URI(s) ==
    \E i \in 0..(Len(s) - 1) :
        \E scheme \in {"http", "ftp", "https"} :
            /\ startsWithAt(s, i, scheme \o "://")
            /\ LET p == i + Len(scheme) + 3
               IN /\ p < Len(s)
                  /\ charAt(s, p) \in ReadmeHostChars
                  /\ readmeHost(s, p + 1, 1)

----------------------------------------------------------------------------
(* Message filter (part_000) *)

\* true when the message is to be kept out of the queue
filterEnqueueMessage(channel, username, message, isModerator) ==
    \/ isModerator
    \/ includes(HYPE_USER_IGNORE_LIST, toLowerCase(username))
    \/ charAt(message, 0) = "!"
    \/ REGEX_CONTAINS_URI(message)

\* filterEnqueueMessage of the README listing, with the pattern it compiles
readmeFilterEnqueueMessage(channel, username, message, isModerator) ==
    \/ isModerator
    \/ includes(HYPE_USER_IGNORE_LIST, toLowerCase(username))
    \/ charAt(message, 0) = "!"
    \/ README_CONTAINS_URI(message)

----------------------------------------------------------------------------
(* The inbound messages delivered to the handler *)

Channels == {"#squishy_life", "#northernlion"}
Usernames == {"viewer"}

\* the bodies of the system specification and of the window specification
SystemBodies == {"POG", ""}
WindowBodies == {"POG", "__proto__", ""}
Bodies == SystemBodies \cup WindowBodies

\* msg.message of a PRIVMSG without a body: the value undefined, written as a
\* line feed, which no chat line holds
undefined == "\n"

\* bodies of the shortest and of the longest accepted length, and one longer
Shortest == Repeat("a", MIN_MSG_LEN)
Longest == Repeat("a", MAX_MSG_LEN)
TooLong == Repeat("a", MAX_MSG_LEN + 1)

\* pairwise distinct eligible bodies, in the order they are delivered
DistinctBodies ==
    <<Shortest, Longest, "m3", "m4", "m5", "m6", "m7", "m8", "m9", "m10">>

\* an emote, a command that carries the emote, a link
FilterBodies == {"Kappa", "!so Kappa", "http://a.co/x"}

\* a link that the pattern of part_000 finds as well
Link == "http://www.ww/w"

\* a viewer, the ignored bot under the name Twitch displays, the bot itself
FilterUsernames == {"viewer", "NightBot"}
EveryUsername == Usernames \cup FilterUsernames \cup {TWITCH_USERNAME}
\* bodies that carry a marker of the sentiment window: a positive one, a
\* negative one, and one with both
SentimentBodies == {"+2", "-2", "-2 +2"}

EveryBody ==
    Bodies \cup FilterBodies \cup SentimentBodies \cup {Link, TooLong, undefined}
        \cup {DistinctBodies[i] : i \in 1..Len(DistinctBodies)}

Inbound(channels, bodies, moderator) ==
    [channel : channels, username : Usernames, message : bodies,
     isModerator : moderator, emotes : {<<>>}]

\* the same from the given senders, with the given msg.tags.emotes
InboundFrom(channels, usernames, bodies, moderator, emotes) ==
    [channel : channels, username : usernames, message : bodies,
     isModerator : moderator, emotes : emotes]

\* every inbound message any specification delivers
AllInbound == Inbound(Channels, Bodies, BOOLEAN)

\* The string operations of the handler depend on the message alone; they are
\* tabulated over the inbound values.
channelOf == [c \in Channels |-> stripHash(c)]
ChannelNames == {channelOf[c] : c \in Channels}
filtered ==
    [c \in ChannelNames, u \in EveryUsername, b \in EveryBody, m \in BOOLEAN |->
        filterEnqueueMessage(c, u, b, m)]
filteredReadme ==
    [c \in ChannelNames, u \in EveryUsername, b \in EveryBody, m \in BOOLEAN |->
        readmeFilterEnqueueMessage(c, u, b, m)]
linked == [b \in EveryBody |-> README_CONTAINS_URI(b)]
ignored ==
    [u \in EveryUsername |-> includes(HYPE_USER_IGNORE_LIST, toLowerCase(u))]

----------------------------------------------------------------------------
(* Hype detection *)

\* let messageCounts = {}: the own properties; every other name reads as an
\* inherited member of Object.prototype, which is no integer
NoCounts == [k \in {} |-> 0]

\* messageCounts[key] = value, for a number: the accessor __proto__ of
\* Object.prototype ignores a value that is neither an object nor null
setCount(messageCounts, key, value) ==
    IF key = "__proto__" THEN messageCounts
    ELSE [k \in DOMAIN messageCounts \cup {key} |->
             IF k = key THEN value ELSE messageCounts[k]]

\* Number.isInteger(messageCounts[key])
isIntegerCount(messageCounts, key) == key \in DOMAIN messageCounts

\* a threshold test that is one too low
reachesThresholdEarly(messageCounts, key) ==
    /\ isIntegerCount(messageCounts, key)
    /\ messageCounts[key] >= HYPE_THRESHOLD - 1

\* messageCounts[message] >= HYPE_THRESHOLD; a non-number compares false
reachesThreshold(messageCounts, key) ==
    /\ isIntegerCount(messageCounts, key)
    /\ messageCounts[key] >= HYPE_THRESHOLD

RECURSIVE scanQueueOn(_, _, _)
\* a loop without the break: the last body whose count reaches the threshold
scanQueueOn(queue, i, messageCounts) ==
    IF i > Len(queue) THEN <<>>
    ELSE LET message == queue[i]
             zeroed == IF isIntegerCount(messageCounts, message)
                       THEN messageCounts
                       ELSE setCount(messageCounts, message, 0)
             counted == IF isIntegerCount(zeroed, message)
                        THEN setCount(zeroed, message, zeroed[message] + 1)
                        ELSE zeroed
             later == scanQueueOn(queue, i + 1, counted)
         IN IF later # <<>> THEN later
            ELSE IF counted[message] >= HYPE_THRESHOLD THEN <<message>>
            ELSE <<>>
RECURSIVE scanQueue(_, _, _)
\* the loop of detectHype from index i: <<message>> for the first body whose
\* count reaches the threshold, <<>> when the loop ends without one
scanQueue(queue, i, messageCounts) ==
    IF i > Len(queue) THEN <<>>
    ELSE LET message == queue[i]
             zeroed == IF isIntegerCount(messageCounts, message)
                       THEN messageCounts
                       ELSE setCount(messageCounts, message, 0)
             counted == IF isIntegerCount(zeroed, message)
                        THEN setCount(zeroed, message, zeroed[message] + 1)
                        ELSE zeroed
         IN IF reachesThreshold(counted, message)
            THEN <<message>>
            ELSE scanQueue(queue, i + 1, counted)

\* a detectHype that passes on the oldest body of the window
hypeMessageOfFront(queue) ==
    IF scanQueue(queue, 1, NoCounts) # <<>> THEN <<queue[1]>> ELSE <<>>
\* the body detectHype passes on, as <<message>>, or <<>>
hypeMessageOf(queue) == scanQueue(queue, 1, NoCounts)

----------------------------------------------------------------------------
(* The transport and chat.say's function *)

\* a line with the channel and the text in each other's place
privmsgLineSwapped(channel, msg) == "PRIVMSG #" \o msg \o " :" \o channel
\* `PRIVMSG #${channel} :${msg}`
privmsgLine(channel, msg) == "PRIVMSG #" \o channel \o " :" \o msg

\* a chat.say function without the DRY_RUN test
sayFnAlways(call, timers, log) ==
    IF variant = AppJs
    THEN <<timers, Append(log, privmsgLine(call[2], call[1]))>>
    ELSE <<Append(timers, [left |-> MSG_SEND_DELAY,
                           line |-> privmsgLine(call[2], call[1])]), log>>

\* the function chat.say limits, run on the bound call <<msg, channel>>:
\* the new <<sendTimers, sent>>
sayFn(call, timers, log) ==
    IF dryRun THEN <<timers, log>>
    ELSE IF variant = AppJs
         THEN <<timers, Append(log, privmsgLine(call[2], call[1]))>>
         ELSE <<Append(timers, [left |-> MSG_SEND_DELAY,
                                line |-> privmsgLine(call[2], call[1])]), log>>

\* chat.send throws
sendRaises == chatSend = "raises"

\* the function chat.say limits throws: in app.js it calls chat.send itself,
\* in part_000 and the README listing it only arms a timer
sayRaises == ~dryRun /\ variant = AppJs /\ sendRaises

----------------------------------------------------------------------------
(* limiter(fn, wait) *)


\* a caller() that takes a call only when another is queued behind it
callerReadyBehind(queue, busy) == Len(queue) > 1 /\ ~busy

\* a caller() without the isCalled test
callerReadyAlways(queue, busy) == Len(queue) > 0
\* calls.length && !isCalled
callerReady(queue, busy) == Len(queue) > 0 /\ ~busy


\* calls.pop() in the place of calls.shift()
popCall(queue) ==
    [call |-> queue[Len(queue)], rest |-> SubSeq(queue, 1, Len(queue) - 1)]
\* calls.shift(): the call taken and the calls left
shiftCall(queue) == [call |-> Head(queue), rest |-> Tail(queue)]


\* the timer armed with the send delay in the place of wait
limiterDelayShort == MSG_SEND_DELAY
\* the delay of the timer that clears isCalled
limiterDelay == LIMITER_WAIT

\* caller(), entered with the queue, the flag and the timers as given
caller(queue, busy, timers) ==
    IF callerReady(queue, busy)
    THEN LET taken == shiftCall(queue)
             out == sayFn(taken.call, sendTimers, sent)
         IN /\ isCalled' = TRUE
            /\ calls' = taken.rest
            /\ executed' = Append(executed, taken.call)
            /\ execAge' = 0
            /\ IF sayRaises
               THEN \* the exception leaves caller() before its setTimeout
                    /\ limiterTimers' = timers
                    /\ raised' = Append(raised, taken.call)
                    /\ UNCHANGED <<sendTimers, sent>>
               ELSE /\ limiterTimers' = Append(timers, limiterDelay)
                    /\ sendTimers' = out[1]
                    /\ sent' = out[2]
                    /\ raised' = raised
    ELSE /\ isCalled' = busy
         /\ calls' = queue
         /\ limiterTimers' = timers
         /\ UNCHANGED <<sendTimers, sent, executed, execAge, raised>>

\* a limited function that pushes the call and does not call caller()
sayQueueing(msg, channel) ==
    /\ submitted' = Append(submitted, <<msg, channel>>)
    /\ calls' = Append(calls, <<msg, channel>>)
    /\ UNCHANGED <<isCalled, limiterTimers, sendTimers, sent, executed, execAge,
                   raised>>
\* the function limiter returns, here chat.say(msg, channel)
say(msg, channel) ==
    /\ submitted' = Append(submitted, <<msg, channel>>)
    /\ caller(Append(calls, <<msg, channel>>), isCalled, limiterTimers)

----------------------------------------------------------------------------
(* Hype emission: _.throttle(beginHype, HYPE_THROTTLE, {'trailing': false}),
   that is lodash's debounce with leading = true, maxWait = wait *)

\* how a write to the statistics database ends: the callbacks of stmt.run
\* are VOID_CALLBACK, which drops the error; a stalled database never calls
\* them
writeOutcome ==
    IF db = "up" THEN "ok" ELSE IF db = "failing" THEN "error" ELSE "pending"

\* recordUserChatStats (part_000): queues the two statements and returns;
\* in the README listing it starts updateOne and catches what it rejects
\* with; app.js keeps no statistics
recordUserChatStats(channel, username) ==
    statsOutcome' = IF variant = AppJs THEN statsOutcome ELSE writeOutcome

\* a sendHypeMessage that records the bot's own message twice
recordOwnStatsTwice(channel) ==
    /\ recordUserChatStats(channel, TWITCH_USERNAME)
    /\ engaged' = engaged \o <<<<channel, TWITCH_USERNAME>>,
                                <<channel, TWITCH_USERNAME>>>>
\* recordUserChatStats(channel, TWITCH_PREFERENCES.credentials.username) of
\* sendHypeMessage; beginHype of app.js records nothing
recordOwnStats(channel) ==
    /\ recordUserChatStats(channel, TWITCH_USERNAME)
    /\ engaged' = IF variant = AppJs THEN engaged
                  ELSE Append(engaged, <<channel, TWITCH_USERNAME>>)

\* a throttle that replays the last dropped call when its timer expires
trailingOn == TRUE

trailing == FALSE

\* a sendHypeMessage that awaits the statistics write before it goes on
beginHypeAwaiting(channel, message) ==
    /\ recordOwnStats(channel)
    /\ IF variant = HypeDb /\ writeOutcome = "pending"
       THEN UNCHANGED <<hypeLog, hypeAge, limiterVars, transportVars, limiterObs>>
       ELSE /\ hypeLog' = Append(hypeLog, <<channel, message>>)
            /\ hypeAge' = 0
            /\ say(message, channel)
    /\ UNCHANGED awaiting

\* console.log of the hype line, then chat.say(message, channel)
printAndSay(channel, message) ==
    /\ hypeLog' = Append(hypeLog, <<channel, message>>)
    /\ hypeAge' = 0
    /\ say(message, channel)

\* beginHype (app.js), sendHypeMessage (part_000): record, print the line,
\* then chat.say.  The async sendHypeMessage of the README listing returns
\* at `await recordUserChatStats(...)`; the rest runs when that settles.
beginHype(channel, message) ==
    /\ recordOwnStats(channel)
    /\ IF variant = Readme
       THEN /\ awaiting' = Append(awaiting, <<channel, message>>)
            /\ UNCHANGED <<hypeLog, hypeAge, limiterVars, transportVars,
                           limiterObs>>
       ELSE /\ printAndSay(channel, message)
            /\ UNCHANGED awaiting

\* debounce's shouldInvoke(time)
shouldInvoke ==
    \/ lastCallAge < 0
    \/ lastCallAge >= HYPE_THROTTLE
    \/ lastInvokeAge >= HYPE_THROTTLE

\* debounce's remainingWait(time)
remainingWait == Min(HYPE_THROTTLE - lastCallAge, HYPE_THROTTLE - lastInvokeAge)

\* debounced(), a call that invokes: leadingEdge, or the maxWait branch
invokingCall(channel, message) ==
    /\ lastCallAge' = 0
    /\ hypeCallAge' = 0
    /\ lastHypeCall' = <<channel, message, TRUE>>
    /\ lastArgs' = <<>>
    /\ lastInvokeAge' = 0
    /\ timerId' = HYPE_THROTTLE
    /\ beginHype(channel, message)

\* debounced(), a call that does not invoke: the arguments are kept
droppedCall(channel, message) ==
    /\ lastCallAge' = 0
    /\ hypeCallAge' = 0
    /\ lastHypeCall' = <<channel, message, FALSE>>
    /\ lastArgs' = <<channel, message>>
    /\ timerId' = IF timerId < 0 THEN HYPE_THROTTLE ELSE timerId
    /\ UNCHANGED <<lastInvokeAge, hypeLog, hypeAge, awaiting, engaged>>
    /\ UNCHANGED <<limiterVars, transportVars, limiterObs>>

\* detectHype calling beginHype itself, as its commented-out line does
hypeUnthrottled(channel, message) == invokingCall(channel, message)

\* a throttle kept per channel: a call for another channel than the last
\* emission's finds its own throttle open
hypePerChannel(channel, message) ==
    IF shouldInvoke \/ (hypeLog # <<>> /\ hypeLog[Len(hypeLog)][1] # channel)
    THEN invokingCall(channel, message)
    ELSE droppedCall(channel, message)

\* the throttled function: hype (app.js), sendHypeMessageThrottled (part_000)
hype(channel, message) ==
    IF shouldInvoke
    THEN invokingCall(channel, message)
    ELSE droppedCall(channel, message)

----------------------------------------------------------------------------
(* The per-channel window *)

hasQueue(channel) == channel \in DOMAIN messageQueues

\* messageQueues[channel], once "Ensure the channel queue exists" has run
queueOf(channel) == IF hasQueue(channel) THEN messageQueues[channel] ELSE <<>>

\* a reset that replaces the whole collection, messageQueues = {channel: []}
setQueueAll(channel, queue) ==
    IF queue = <<>>
    THEN [c \in {channel} |-> <<>>]
    ELSE [c \in DOMAIN messageQueues \cup {channel} |->
            IF c = channel THEN queue ELSE messageQueues[c]]

\* messageQueues[channel] = queue
setQueue(channel, queue) ==
    [c \in DOMAIN messageQueues \cup {channel} |->
        IF c = channel THEN queue ELSE messageQueues[c]]


\* a capacity test that lets the window grow one past the capacity
queueOverFull(queue) == Len(queue) > MaxQueueLen
\* messageQueues[channel].length >= MAX_QUEUE_LEN
queueFull(queue) == Len(queue) >= MaxQueueLen

\* a length test with both ends left out
lengthOkExclusive(message) ==
    Len(message) > MinMsgLen /\ Len(message) < MaxMsgLen

\* message.length >= MIN_MSG_LEN && message.length <= MAX_MSG_LEN
lengthOk(message) == Len(message) >= MinMsgLen /\ Len(message) <= MaxMsgLen

\* messageQueues[channel].pop() in the place of shift(): the newest is dropped
shiftedNewest(queue) ==
    IF queueFull(queue) THEN SubSeq(queue, 1, Len(queue) - 1) ELSE queue

\* the queue after "Dequeue the oldest message"
shifted(queue) == IF queueFull(queue) THEN Tail(queue) ELSE queue

\* the queue after "Dequeue the oldest message" and "Enqueue the new message"
pushed(queue, message) ==
    LET kept == shifted(queue)
    IN IF lengthOk(message) THEN Append(kept, message) ELSE kept

\* what detectHype(channel) finds after the push: <<message>> or <<>>
burstOf(channel, message) ==
    IF lengthOk(message)
    THEN hypeMessageOf(pushed(queueOf(channel), message))
    ELSE <<>>

\* a detectHype that clears the window only when the throttle lets the call
\* through
enqueueAndDetectKeeping(channel, message) ==
    LET burst == burstOf(channel, message)
    IN IF burst # <<>>
       THEN /\ messageQueues' =
                  setQueue(channel, IF shouldInvoke THEN <<>>
                                    ELSE pushed(queueOf(channel), message))
            /\ hype(channel, burst[1])
       ELSE /\ messageQueues' = setQueue(channel, pushed(queueOf(channel), message))
            /\ UNCHANGED <<throttleVars, limiterVars, transportVars>>
            /\ UNCHANGED <<limiterObs, hypeObs>>
\* enqueueChatMessage from "Ensure the channel queue exists" on, with
\* detectHype(channel) when the message was pushed
enqueueAndDetect(channel, message) ==
    LET burst == burstOf(channel, message)
    IN IF burst # <<>>
       THEN /\ messageQueues' = setQueue(channel, <<>>)
            /\ hype(channel, burst[1])
       ELSE /\ messageQueues' = setQueue(channel, pushed(queueOf(channel), message))
            /\ UNCHANGED <<throttleVars, limiterVars, transportVars>>
            /\ UNCHANGED <<limiterObs, hypeObs>>

\* an expression compiled with the flag g
regexGlobalSet == TRUE
\* new RegExp(pattern) is given no flags: the expression is not global
regexGlobal == FALSE

\* RegExp.prototype.test starts at lastIndex when the expression is global,
\* at 0 otherwise
searchFrom == IF regexGlobal THEN lastIndex ELSE 0

\* REGEX_CONTAINS_URI.test(message) of the running variant, the search
\* starting at the index given
testFrom(message, from) ==
    /\ from <= Len(message)
    /\ LET rest == SubSeq(message, from + 1, Len(message))
       IN IF variant = Readme
          THEN README_CONTAINS_URI(rest)
          ELSE REGEX_CONTAINS_URI(rest)

\* lastIndex once test has run: a global expression writes the end of the
\* match (the links delivered run to the end of the message) or 0, another
\* leaves it alone
lastIndexAfterTest(message) ==
    IF regexGlobal
    THEN IF testFrom(message, lastIndex) THEN Len(message) ELSE 0
    ELSE lastIndex

\* the filter gets as far as REGEX_CONTAINS_URI.test(message)
reachesTest(username, message, isModerator) ==
    /\ ~isModerator
    /\ ~ignored[username]
    /\ message # undefined
    /\ charAt(message, 0) # "!"

\* a filter that rejects the bot's own messages as well
isFilteredOwn(channel, username, message, isModerator) ==
    \/ username = TWITCH_USERNAME
    \/ IF variant = Readme
       THEN filteredReadme[channel, username, message, isModerator]
       ELSE filtered[channel, username, message, isModerator]
\* the filter of the running variant: read from its table when the search
\* starts at 0
isFiltered(channel, username, message, isModerator) ==
    IF searchFrom = 0
    THEN IF variant = Readme
         THEN filteredReadme[channel, username, message, isModerator]
         ELSE filtered[channel, username, message, isModerator]
    ELSE \/ ~reachesTest(username, message, isModerator)
         \/ testFrom(message, searchFrom)

\* a filter that keeps every entry
inWindowAlways(entry) == TRUE
\* now - msg.time <= WINDOW_SIZE_MS
inWindow(entry) == entry.age <= WINDOW_SIZE_MS

\* messageWindow.filter(...) after messageWindow.push({ time: now, type })
prunedWindow(type) ==
    SelectSeq(Append(messageWindow, [age |-> 0, type |-> type]), inWindow)

\* positiveCount / negativeCount of the loop over the window
countOf(window, type) ==
    Cardinality({i \in 1..Len(window) : window[i].type = type})

\* positiveCount - negativeCount, the counts not doubled
averageOfCounts(window) == countOf(window, "+2") - countOf(window, "-2")
\* (positiveCount * 2) - (negativeCount * 2)
averageOf(window) == countOf(window, "+2") * 2 - countOf(window, "-2") * 2

\* movingAverage >= 0 ? '+' : '-'
positiveNegativeSymbol(average) == IF average >= 0 THEN "+" ELSE "-"

\* `Moving Average: ${positiveNegativeSymbol}${movingAverage}`
averageLine(average) ==
    "Moving Average: " \o positiveNegativeSymbol(average) \o ToString(average)

\* updateMessageWindow(type): push, prune, count, print, recordMovingAverage
updateMessageWindow(type) ==
    LET kept == prunedWindow(type)
    IN /\ messageWindow' = kept
       /\ movingAverage' = [line |-> averageLine(averageOf(kept)),
                            recorded |-> averageOf(kept)]

\* the marker enqueueChatMessage finds in message.toLowerCase(): '+2' is
\* looked for first
markerOf(message) ==
    IF stringIncludes(toLowerCase(message), "+2") THEN "+2"
    ELSE IF stringIncludes(toLowerCase(message), "-2") THEN "-2"
    ELSE ""

markers == [b \in EveryBody \ {undefined} |-> markerOf(b)]

\* "Update counters and sliding window for +2 and -2 messages" (README)
countSentiment(message) ==
    IF variant # Readme \/ markers[message] = ""
    THEN UNCHANGED sentimentVars
    ELSE /\ dailyPositiveCount' =
               dailyPositiveCount + (IF markers[message] = "+2" THEN 1 ELSE 0)
         /\ dailyNegativeCount' =
               dailyNegativeCount + (IF markers[message] = "-2" THEN 1 ELSE 0)
         /\ tallied' = [tallied EXCEPT ![markers[message]] = @ + 1]
         /\ updateMessageWindow(markers[message])

\* detectHype(channel) on the window as it stands
detectHype(channel) ==
    LET burst == hypeMessageOf(queueOf(channel))
    IN IF burst # <<>>
       THEN /\ messageQueues' = setQueue(channel, <<>>)
            /\ hype(channel, burst[1])
       ELSE UNCHANGED <<messageQueues, throttleVars, limiterVars,
                        transportVars, limiterObs, hypeObs, statsOutcome>>

\* filterEnqueueMessage reaching message.charAt(0) with message undefined
filterThrows(username, message, isModerator) ==
    /\ ~isModerator
    /\ ~ignored[username]
    /\ message = undefined

\* the handler ends with a TypeError and nothing else happens
throwTypeError ==
    /\ handlerExit' = "TypeError"
    /\ UNCHANGED <<messageQueues, throttleVars, limiterVars, transportVars,
                   limiterObs, hypeObs, statsOutcome, sentimentVars>>

enqueueChatMessage(channel, username, message, isModerator, emote) ==
    IF variant = AppJs
    THEN IF message = undefined
         THEN \* the queue is ensured and shifted, then message.length throws
              /\ messageQueues' = setQueue(channel, shifted(queueOf(channel)))
              /\ handlerExit' = "TypeError"
              /\ UNCHANGED <<throttleVars, limiterVars, transportVars,
                             limiterObs, hypeObs, statsOutcome, sentimentVars>>
         ELSE /\ enqueueAndDetect(channel, message)
              /\ handlerExit' = IF raised' # raised THEN "Error" ELSE "returned"
              /\ UNCHANGED <<statsOutcome, sentimentVars>>
    ELSE LET body == IF emote # "" THEN emote ELSE message
         IN IF filterThrows(username, body, isModerator)
            THEN throwTypeError
            ELSE IF isFiltered(channel, username, body, isModerator)
            THEN /\ handlerExit' = "filtered"
                 /\ UNCHANGED <<messageQueues, throttleVars, limiterVars,
                                transportVars, limiterObs, hypeObs,
                                statsOutcome, sentimentVars>>
            ELSE /\ recordUserChatStats(channel, username)
                 /\ enqueueAndDetect(channel, body)
                 /\ countSentiment(body)
                 /\ handlerExit' = "returned"

\* the emote the PRIVMSG handler of part_000 cuts out of the message
\* ("" stands for undefined: both are falsy in enqueueChatMessage)
emoteOf(msg) ==
    IF Len(msg.emotes) > 0
    THEN substring(msg.message, msg.emotes[1].start, msg.emotes[1].end + 1)
    ELSE ""

\* the handler before enqueueChatMessage: msg.message.substring (part_000)
\* and message.toLowerCase() of handleOtherMessage throw on undefined
handlerThrows(msg) ==
    /\ msg.message = undefined
    /\ \/ variant # AppJs /\ Len(msg.emotes) > 0
       \/ msg.username # TWITCH_USERNAME

----------------------------------------------------------------------------
(* Actions *)

\* chat.on('PRIVMSG', ...) for one inbound message
PRIVMSG(msg) ==
    /\ ~uncaught
    /\ Len(hypeLog) + Len(awaiting) < MaxHype
    /\ IF handlerThrows(msg)
       THEN throwTypeError
       ELSE enqueueChatMessage(channelOf[msg.channel], msg.username,
                               msg.message, msg.isModerator, emoteOf(msg))
    /\ lastIndex' =
           LET body == IF variant # AppJs /\ emoteOf(msg) # ""
                       THEN emoteOf(msg) ELSE msg.message
           IN IF /\ variant # AppJs
                 /\ ~handlerThrows(msg)
                 /\ reachesTest(msg.username, body, msg.isModerator)
              THEN lastIndexAfterTest(body)
              ELSE lastIndex
    /\ UNCHANGED <<variant, envVars, janitorTimer, windowTimer, resetVars>>

\* a call of detectHype(channel) by itself
DetectHype(channel) ==
    /\ ~uncaught
    /\ hasQueue(channel)
    /\ detectHype(channel)
    /\ UNCHANGED <<variant, envVars, regexVars, handlerExit, extendedVars,
                   janitorTimer>>

\* the rest of the async sendHypeMessage (README) once the statistics write
\* its i-th suspended call awaits has settled, fulfilled or caught
StatsSettled(i) ==
    /\ ~uncaught
    /\ i \in 1..Len(awaiting)
    /\ db # "stalled"
    /\ awaiting' = SubSeq(awaiting, 1, i - 1) \o SubSeq(awaiting, i + 1, Len(awaiting))
    /\ printAndSay(awaiting[i][1], awaiting[i][2])
    /\ UNCHANGED <<variant, envVars, regexVars, handlerObs, extendedVars, messageQueues,
                   throttleVars, janitorTimer, lastHypeCall, hypeCallAge,
                   engaged>>

\* the interval callback at the end of the README listing
WindowTick ==
    /\ ~uncaught
    /\ windowTimer = 0
    /\ updateMessageWindow("")
    /\ windowTimer' = WINDOW_SIZE_MS
    /\ UNCHANGED <<variant, envVars, regexVars, handlerObs, tallyVars, resetVars,
                   messageQueues, throttleVars, limiterVars, transportVars,
                   janitorTimer, limiterObs, hypeObs>>

\* the cron job: resetDailyTallies up to its await of insertOne
CronJob ==
    /\ ~uncaught
    /\ Len(dailyDocs) + Len(resetInFlight) < MaxResets
    /\ resetErrors <= MaxFailedResets
    /\ resetInFlight' =
           Append(resetInFlight,
                  [dailyPositiveCount |-> dailyPositiveCount,
                   dailyNegativeCount |-> dailyNegativeCount,
                   dailyTotal |-> dailyPositiveCount + dailyNegativeCount])
    /\ UNCHANGED <<variant, envVars, regexVars, handlerObs, sentimentVars, dailyDocs,
                   resetErrors, windowTimer, messageQueues, throttleVars, limiterVars,
                   transportVars, janitorTimer, limiterObs, hypeObs>>

\* a resetDailyTallies that resets the counters in a finally clause
ResetSettledFinally ==
    /\ ~uncaught
    /\ resetInFlight # <<>>
    /\ db # "stalled"
    /\ resetInFlight' = Tail(resetInFlight)
    /\ dailyPositiveCount' = 0
    /\ dailyNegativeCount' = 0
    /\ IF db = "up"
       THEN /\ dailyDocs' = Append(dailyDocs, Head(resetInFlight))
            /\ UNCHANGED resetErrors
       ELSE /\ resetErrors' = resetErrors + 1
            /\ UNCHANGED dailyDocs
    /\ UNCHANGED <<variant, envVars, regexVars, handlerObs, tallied, messageWindow,
                   movingAverage, windowTimer, messageQueues, throttleVars,
                   limiterVars, transportVars, janitorTimer, limiterObs,
                   hypeObs>>
\* the rest of resetDailyTallies once insertOne has settled: "Reset the
\* counters" when it fulfilled, the catch clause when it rejected
ResetSettled ==
    /\ ~uncaught
    /\ resetInFlight # <<>>
    /\ db # "stalled"
    /\ resetInFlight' = Tail(resetInFlight)
    /\ IF db = "up"
       THEN /\ dailyDocs' = Append(dailyDocs, Head(resetInFlight))
            /\ dailyPositiveCount' = 0
            /\ dailyNegativeCount' = 0
            /\ UNCHANGED resetErrors
       ELSE /\ resetErrors' = resetErrors + 1
            /\ UNCHANGED <<dailyDocs, dailyPositiveCount, dailyNegativeCount>>
    /\ UNCHANGED <<variant, envVars, regexVars, handlerObs, tallied, messageWindow,
                   movingAverage, windowTimer, messageQueues, throttleVars,
                   limiterVars, transportVars, janitorTimer, limiterObs,
                   hypeObs>>

\* debounce's timerExpired, when the throttle's timer is due
ThrottleTimer ==
    /\ ~uncaught
    /\ timerId = 0
    /\ IF shouldInvoke
       THEN /\ timerId' = -1
            /\ lastArgs' = <<>>
            /\ IF trailing /\ lastArgs # <<>>
               THEN /\ lastInvokeAge' = 0
                    /\ beginHype(lastArgs[1], lastArgs[2])
               ELSE /\ UNCHANGED <<lastInvokeAge, hypeLog, hypeAge, awaiting,
                                   engaged>>
                    /\ UNCHANGED <<limiterVars, transportVars, limiterObs>>
                    /\ UNCHANGED statsOutcome
       ELSE /\ timerId' = remainingWait
            /\ UNCHANGED <<lastArgs, lastInvokeAge, hypeLog, hypeAge, awaiting,
                           engaged>>
            /\ UNCHANGED <<limiterVars, transportVars, limiterObs>>
            /\ UNCHANGED statsOutcome
    /\ UNCHANGED <<variant, envVars, regexVars, handlerExit, messageQueues, janitorTimer,
                   lastCallAge, lastHypeCall, hypeCallAge, extendedVars>>

\* a timer callback that clears the flag and leaves the queue alone
LimiterTimerClearing ==
    /\ limiterTimers # <<>>
    /\ Head(limiterTimers) = 0
    /\ isCalled' = FALSE
    /\ limiterTimers' = Tail(limiterTimers)
    /\ UNCHANGED <<calls, transportVars, executed, execAge, raised>>
    /\ UNCHANGED <<variant, envVars, regexVars, handlerObs, extendedVars, messageQueues, throttleVars,
                   janitorTimer, submitted, hypeObs>>
\* the limiter's timer callback: isCalled = false; caller()
LimiterTimer ==
    /\ ~uncaught
    /\ limiterTimers # <<>>
    /\ Head(limiterTimers) = 0
    /\ caller(calls, FALSE, Tail(limiterTimers))
    /\ uncaught' = (raised' # raised)
    /\ UNCHANGED <<variant, dryRun, db, chatSend, regexVars, handlerObs, extendedVars,
                   messageQueues, throttleVars, janitorTimer, submitted, hypeObs>>

\* the timer callback of chat.say (part_000): chat.send
SendTimer ==
    /\ ~uncaught
    /\ sendTimers # <<>>
    /\ Head(sendTimers).left = 0
    /\ sent' = IF sendRaises THEN sent ELSE Append(sent, Head(sendTimers).line)
    /\ sendTimers' = Tail(sendTimers)
    /\ uncaught' = sendRaises
    /\ UNCHANGED <<variant, dryRun, db, chatSend, regexVars, handlerObs, extendedVars,
                   messageQueues, throttleVars, limiterVars, janitorTimer,
                   limiterObs, hypeObs>>

\* a disposal that cancels the throttle as well
JanitorCancelling ==
    /\ janitorTimer = 0
    /\ messageQueues' = [c \in {} |-> <<>>]
    /\ janitorTimer' = HYPE_DEQUEUE_TIMER
    /\ lastArgs' = <<>>
    /\ lastCallAge' = -1
    /\ lastInvokeAge' = HYPE_THROTTLE
    /\ timerId' = -1
    /\ UNCHANGED <<variant, envVars, regexVars, handlerObs, extendedVars, limiterVars,
                   transportVars, limiterObs, hypeObs>>
\* a disposal that leaves the windows alone while the limiter is busy
JanitorWhenIdle ==
    /\ janitorTimer = 0
    /\ messageQueues' = IF isCalled THEN messageQueues ELSE [c \in {} |-> <<>>]
    /\ janitorTimer' = HYPE_DEQUEUE_TIMER
    /\ UNCHANGED <<variant, envVars, regexVars, handlerObs, extendedVars, throttleVars, limiterVars,
                   transportVars, limiterObs, hypeObs>>

\* the interval callback of startDequeueDisposalProcess (part_000)
Janitor ==
    /\ ~uncaught
    /\ janitorTimer = 0
    /\ messageQueues' = [c \in {} |-> <<>>]
    /\ janitorTimer' = HYPE_DEQUEUE_TIMER
    /\ UNCHANGED <<variant, envVars, regexVars, handlerObs, extendedVars, throttleVars, limiterVars,
                   transportVars, limiterObs, hypeObs>>

\* the statistics database starts failing, stalls or recovers
DbFault ==
    /\ db' \in {"up", "failing", "stalled"} \ {db}
    /\ UNCHANGED <<variant, dryRun, chatSend, uncaught, regexVars, handlerObs,
                   messageQueues, throttleVars, limiterVars, transportVars,
                   janitorTimer, limiterObs, hypeObs, extendedVars>>

\* chat.send starts or stops throwing
SendFault ==
    /\ chatSend' \in {"ok", "raises"} \ {chatSend}
    /\ UNCHANGED <<variant, dryRun, db, uncaught, regexVars, handlerObs,
                   messageQueues, throttleVars, limiterVars, transportVars,
                   janitorTimer, limiterObs, hypeObs, extendedVars>>

\* a direct call of chat.say, the function the limiter returns
Say(msg, channel) ==
    /\ ~uncaught
    /\ Len(submitted) < MaxSay
    /\ say(msg, channel)
    /\ UNCHANGED <<variant, envVars, regexVars, handlerObs, extendedVars, messageQueues, throttleVars,
                   janitorTimer, hypeObs>>

aged(age, d, cap) == IF age < 0 THEN age ELSE Min(age + d, cap)
left(timer, d) == IF timer < 0 THEN timer ELSE Max(timer - d, 0)

\* d milliseconds pass
Tick(d) ==
    /\ lastCallAge' = aged(lastCallAge, d, HYPE_THROTTLE)
    /\ lastInvokeAge' = aged(lastInvokeAge, d, HYPE_THROTTLE)
    /\ hypeCallAge' = aged(hypeCallAge, d, HYPE_THROTTLE)
    /\ hypeAge' = aged(hypeAge, d, HYPE_THROTTLE)
    /\ execAge' = aged(execAge, d, LIMITER_WAIT)
    /\ timerId' = left(timerId, d)
    /\ janitorTimer' = left(janitorTimer, d)
    /\ limiterTimers' = [i \in 1..Len(limiterTimers) |-> left(limiterTimers[i], d)]
    /\ sendTimers' = [i \in 1..Len(sendTimers) |->
                         [sendTimers[i] EXCEPT !.left = left(@, d)]]
    /\ windowTimer' = left(windowTimer, d)
    /\ messageWindow' =
           [i \in 1..Len(messageWindow) |->
               [messageWindow[i] EXCEPT !.age = aged(@, d, WINDOW_SIZE_MS + 1)]]
    /\ UNCHANGED <<variant, envVars, regexVars, handlerObs, tallyVars, movingAverage,
                   resetVars, messageQueues, lastArgs, isCalled, calls, sent,
                   hypeLog, awaiting, engaged, submitted, executed, raised,
                   lastHypeCall>>

\* some armed timer is due
timerDue ==
    \/ timerId = 0
    \/ janitorTimer = 0
    \/ windowTimer = 0
    \/ \E i \in 1..Len(limiterTimers) : limiterTimers[i] = 0
    \/ \E i \in 1..Len(sendTimers) : sendTimers[i].left = 0

\* d milliseconds pass, every timer having fired by its deadline
Advance(d) == ~timerDue /\ Tick(d)

----------------------------------------------------------------------------
(* Specifications *)

\* the state once the connection is established and the channels are joined
\* the closures, the timers and the counters as the module's load leaves them
Loaded ==
    /\ lastArgs = <<>>
    /\ lastCallAge = -1
    /\ lastInvokeAge = HYPE_THROTTLE
    /\ timerId = -1
    /\ isCalled = FALSE
    /\ calls = <<>>
    /\ limiterTimers = <<>>
    /\ sendTimers = <<>>
    /\ sent = <<>>
    /\ janitorTimer = IF variant = AppJs THEN -1 ELSE HYPE_DEQUEUE_TIMER
    /\ hypeLog = <<>>
    /\ submitted = <<>>
    /\ executed = <<>>
    /\ raised = <<>>
    /\ resetErrors = 0
    /\ chatSend = "ok"
    /\ uncaught = FALSE
    /\ execAge = -1
    /\ lastHypeCall = <<>>
    /\ hypeCallAge = -1
    /\ hypeAge = -1
    /\ db = "up"
    /\ statsOutcome = "none"
    /\ handlerExit = "none"
    /\ awaiting = <<>>
    /\ engaged = <<>>
    /\ dailyPositiveCount = 0
    /\ dailyNegativeCount = 0
    /\ messageWindow = <<>>
    /\ windowTimer = IF variant = Readme THEN WINDOW_SIZE_MS ELSE -1
    /\ movingAverage = [line |-> "", recorded |-> 0]
    /\ tallied = [m \in {"+2", "-2"} |-> 0]
    /\ resetInFlight = <<>>
    /\ dailyDocs = <<>>
    /\ lastIndex = 0

Booted == messageQueues = [c \in {} |-> <<>>] /\ Loaded

\* app.js or part_000 once started
Started == variant \in Variants /\ Booted

\* the program as configured in the source
Init == Started /\ dryRun = DRY_RUN

\* the program with DRY_RUN set
InitDryRun == Started /\ dryRun = TRUE

Next ==
    \/ \E msg \in Inbound(Channels, SystemBodies, BOOLEAN) : PRIVMSG(msg)
    \/ ThrottleTimer
    \/ LimiterTimer
    \/ SendTimer
    \/ Janitor
    \/ Advance(SystemStep)

Spec == Init /\ [][Next]_vars

\* The window and the detector: one channel, a body that counts, a body that
\* names the accessor of Object.prototype, and a body of no length.

NextWindow ==
    \/ \E msg \in Inbound({"#squishy_life"}, WindowBodies, {FALSE}) : PRIVMSG(msg)
    \/ ThrottleTimer
    \/ LimiterTimer
    \/ SendTimer
    \/ Janitor
    \/ Advance(WindowStep)

SpecWindow == Init /\ [][NextWindow]_vars

\* The program with a statistics database that fails and stalls at any time;
\* one channel.
StatsInbound == Inbound({"#squishy_life"}, SystemBodies, BOOLEAN)

NextStats ==
    \/ \E msg \in StatsInbound : PRIVMSG(msg)
    \/ ThrottleTimer
    \/ LimiterTimer
    \/ SendTimer
    \/ Janitor
    \/ Advance(SystemStep)
    \/ DbFault

SpecStats == Init /\ [][NextStats]_vars

\* Malformed input: one channel; a viewer and the bot itself send a body or
\* a PRIVMSG without one.
Malformed ==
    InboundFrom({"#squishy_life"}, {"viewer", TWITCH_USERNAME},
                {"POG", undefined}, BOOLEAN, {<<>>})

NextMalformed ==
    \/ \E msg \in Malformed : PRIVMSG(msg)
    \/ ThrottleTimer
    \/ LimiterTimer
    \/ SendTimer
    \/ Janitor
    \/ Advance(SystemStep)

SpecMalformed == Init /\ [][NextMalformed]_vars

\* The program with DRY_RUN set to true; chat.say arms no send timer then, so
\* none can fire.
NextDryRun ==
    \/ \E msg \in Inbound(Channels, SystemBodies, BOOLEAN) : PRIVMSG(msg)
    \/ ThrottleTimer
    \/ LimiterTimer
    \/ Janitor
    \/ Advance(SystemStep)

SpecDryRun == InitDryRun /\ [][NextDryRun]_vars

\* The limiter alone: chat.say is called at any time with any of a few
\* arguments; its timers fire at or after their deadlines.
SayArguments == {<<"A1", "squishy_life">>, <<"A2", "squishy_life">>}

NextLimiter ==
    \/ \E call \in SayArguments : Say(call[1], call[2])
    \/ LimiterTimer
    \/ SendTimer
    \/ Tick(LimiterStep)

SpecLimiter == Init /\ [][NextLimiter]_vars

\* The limiter's timers keep firing and time keeps passing.
FairSpecLimiter ==
    /\ SpecLimiter
    /\ WF_vars(LimiterTimer)
    /\ WF_vars(SendTimer)
    /\ WF_vars(Tick(LimiterStep))

\* Eviction: each channel receives the pairwise distinct bodies in order,
\* from the first one whenever its window is empty.
indexOf(body) == CHOOSE i \in 1..Len(DistinctBodies) : DistinctBodies[i] = body

nextDistinct(channel) ==
    LET queue == queueOf(channel)
    IN IF queue = <<>> THEN 1 ELSE indexOf(queue[Len(queue)]) + 1

distinctMessage(c) ==
    [channel |-> c, username |-> "viewer",
     message |-> DistinctBodies[nextDistinct(channelOf[c])],
     isModerator |-> FALSE, emotes |-> <<>>]

NextEviction ==
    \/ \E c \in Channels :
        /\ nextDistinct(channelOf[c]) <= Len(DistinctBodies)
        /\ PRIVMSG(distinctMessage(c))
    \/ Janitor
    \/ Advance(WindowStep)

SpecEviction == Init /\ [][NextEviction]_vars

\* Lengths: the same delivery, whose first two bodies have the shortest and
\* the longest accepted length, and at any time a body of no length or one
\* character too long, from a viewer or from a moderator.
OutOfRange ==
    InboundFrom(Channels, {"viewer"}, {"", TooLong}, BOOLEAN, {<<>>})

NextLength ==
    \/ \E c \in Channels :
        /\ nextDistinct(channelOf[c]) <= Len(DistinctBodies)
        /\ PRIVMSG(distinctMessage(c))
    \/ \E msg \in OutOfRange : PRIVMSG(msg)
    \/ Janitor
    \/ Advance(WindowStep)

SpecLength == Init /\ [][NextLength]_vars

\* The filter: one channel; a viewer and the ignored bot, moderators or not,
\* send an emote, a command and a link, with and without emote tags.
KappaAt == {<<"Kappa", 0>>, <<"!so Kappa", 4>>}

Untagged ==
    InboundFrom({"#squishy_life"}, FilterUsernames, FilterBodies, BOOLEAN, {<<>>})

Tagged ==
    {[channel |-> "#squishy_life", username |-> u, message |-> t[1],
      isModerator |-> m, emotes |-> <<[start |-> t[2], end |-> t[2] + 4]>>] :
        u \in FilterUsernames, t \in KappaAt, m \in BOOLEAN}

NextFilter ==
    \/ \E msg \in Untagged \cup Tagged : PRIVMSG(msg)
    \/ ThrottleTimer
    \/ LimiterTimer
    \/ SendTimer
    \/ Janitor
    \/ Advance(WindowStep)

SpecFilter == Init /\ [][NextFilter]_vars

\* The README listing: the handler, its timers, and the statistics writes
\* that sendHypeMessage awaits, settling at any later moment.
InitReadme == variant = Readme /\ Booted /\ dryRun = DRY_RUN

SystemInbound == Inbound(Channels, SystemBodies, BOOLEAN)
ReadmeInbound == Inbound(Channels, {"POG"}, {FALSE})

NextReadme ==
    \/ \E msg \in ReadmeInbound : PRIVMSG(msg)
    \/ \E i \in 1..MaxHype : StatsSettled(i)
    \/ ThrottleTimer
    \/ LimiterTimer
    \/ SendTimer
    \/ Janitor
    \/ WindowTick
    \/ Advance(ReadmeStep)

SpecReadme == InitReadme /\ [][NextReadme]_vars

\* The path from a burst to the transport: two channels, two bodies.
DispatchInbound ==
    Inbound({"#squishy_life"}, {"POG", "Kappa"}, {FALSE})
        \cup Inbound({"#northernlion"}, {"POG"}, {FALSE})

NextDispatch ==
    \/ \E msg \in DispatchInbound : PRIVMSG(msg)
    \/ ThrottleTimer
    \/ LimiterTimer
    \/ SendTimer
    \/ Janitor
    \/ Advance(WindowStep)

SpecDispatch == Init /\ [][NextDispatch]_vars

\* The programs that keep statistics, two channels.
InitEngage == variant \in {HypeDb, Readme} /\ Booted /\ dryRun = DRY_RUN

NextEngage ==
    \/ \E msg \in ReadmeInbound : PRIVMSG(msg)
    \/ \E i \in 1..MaxHype : StatsSettled(i)
    \/ ThrottleTimer
    \/ LimiterTimer
    \/ SendTimer
    \/ Janitor
    \/ WindowTick
    \/ Advance(ReadmeStep)

SpecEngage == InitEngage /\ [][NextEngage]_vars

\* A transport whose chat.send may throw: messages arrive, and chat.send
\* starts and stops throwing at any time.
NextRaising ==
    \/ \E msg \in ReadmeInbound : PRIVMSG(msg)
    \/ ThrottleTimer
    \/ LimiterTimer
    \/ SendTimer
    \/ Janitor
    \/ SendFault
    \/ Advance(SystemStep)

SpecRaising == Init /\ [][NextRaising]_vars

\* The three programs when the only sender is the bot itself.
InitOwn == variant \in Variants \cup {Readme} /\ Booted /\ dryRun = DRY_RUN

OwnInbound ==
    InboundFrom({"#squishy_life"}, {TWITCH_USERNAME}, {"POG"}, BOOLEAN, {<<>>})

NextOwn ==
    \/ \E msg \in OwnInbound : PRIVMSG(msg)
    \/ \E i \in 1..MaxHype : StatsSettled(i)
    \/ ThrottleTimer
    \/ LimiterTimer
    \/ SendTimer
    \/ Janitor
    \/ WindowTick
    \/ Advance(ReadmeStep)

SpecOwn == InitOwn /\ [][NextOwn]_vars

\* part_000 with chat.say called directly as well, so that the janitor fires
\* on a limiter with calls queued.
InitJanitor == variant = HypeDb /\ Booted /\ dryRun = DRY_RUN

JanitorInbound == Inbound({"#squishy_life"}, {"POG"}, {FALSE})

NextJanitor ==
    \/ \E msg \in JanitorInbound : PRIVMSG(msg)
    \/ Say("A1", "squishy_life")
    \/ ThrottleTimer
    \/ LimiterTimer
    \/ SendTimer
    \/ Janitor
    \/ Advance(ReadmeStep)

SpecJanitor == InitJanitor /\ [][NextJanitor]_vars

\* The filter in the two programs that have one: an emote and a link from a
\* viewer, in one channel.
InitPure == variant \in {HypeDb, Readme} /\ Booted /\ dryRun = DRY_RUN

PureInbound == Inbound({"#squishy_life"}, {"Kappa", Link}, {FALSE})

NextPure ==
    \/ \E msg \in PureInbound : PRIVMSG(msg)
    \/ \E i \in 1..MaxHype : StatsSettled(i)
    \/ ThrottleTimer
    \/ LimiterTimer
    \/ SendTimer
    \/ Janitor
    \/ WindowTick
    \/ Advance(ReadmeStep)

SpecPure == InitPure /\ [][NextPure]_vars

\* detectHype on every window two bodies can fill up to the capacity.
DetectBodies == {"A", "B"}

RECURSIVE Windows(_)
\* the arrays of at most n of these bodies
Windows(n) ==
    IF n = 0 THEN {<<>>}
    ELSE LET shorter == Windows(n - 1)
         IN shorter \cup {Append(w, b) : w \in shorter, b \in DetectBodies}

InitDetect ==
    /\ variant \in Variants \cup {Readme}
    /\ \E window \in Windows(MaxQueueLen) :
          messageQueues = [c \in {"squishy_life"} |-> window]
    /\ Loaded
    /\ dryRun = DRY_RUN

NextDetect ==
    \/ DetectHype("squishy_life")
    \/ \E i \in 1..MaxHype : StatsSettled(i)
    \/ ThrottleTimer
    \/ LimiterTimer
    \/ SendTimer
    \/ Janitor
    \/ WindowTick
    \/ Advance(ReadmeStep)

SpecDetect == InitDetect /\ [][NextDetect]_vars

\* The sentiment window and the daily tallies of the README listing: one
\* channel, messages that carry a marker, the cron job at any moment.
SentimentInbound == Inbound({"#squishy_life"}, SentimentBodies, {FALSE})

NextSentiment ==
    \/ /\ tallied["+2"] + tallied["-2"] < MaxCounted
       /\ \E msg \in SentimentInbound : PRIVMSG(msg)
    \/ WindowTick
    \/ Janitor
    \/ CronJob
    \/ ResetSettled
    \/ Advance(SentimentStep)

SpecSentiment == InitReadme /\ [][NextSentiment]_vars

\* The daily reset of the README listing with a database that fails and
\* recovers at any time.
NextReset ==
    \/ /\ tallied["+2"] + tallied["-2"] < MaxCounted
       /\ \E msg \in Inbound({"#squishy_life"}, {"+2", "-2"}, {FALSE}) : PRIVMSG(msg)
    \/ WindowTick
    \/ CronJob
    \/ ResetSettled
    \/ DbFault
    \/ Advance(SentimentStep)

SpecReset == InitReadme /\ [][NextReset]_vars

----------------------------------------------------------------------------
(* Notions the properties share *)

\* the body enqueueChatMessage works on
bodyOf(msg) ==
    IF variant # AppJs /\ emoteOf(msg) # "" THEN emoteOf(msg) ELSE msg.message

\* the message passes the filter (where there is one) and the length check
eligible(msg) ==
    /\ lengthOk(bodyOf(msg))
    /\ \/ variant = AppJs
       \/ ~isFiltered(channelOf[msg.channel], msg.username, bodyOf(msg),
                      msg.isModerator)

\* handling msg makes detectHype call the throttled function
bursts(msg) ==
    /\ eligible(msg)
    /\ burstOf(channelOf[msg.channel], bodyOf(msg)) # <<>>

Copies(message, n) == [i \in 1..n |-> message]

\* the event is one the filter is to keep out: moderator, ignored sender,
\* command, or link as README.md's pattern finds it
excluded(msg) ==
    \/ msg.isModerator
    \/ ignored[msg.username]
    \/ charAt(msg.message, 0) = "!"
    \/ linked[msg.message]

\* the window of a channel after the step, empty when there is none
queueAfter(channel) ==
    IF channel \in DOMAIN messageQueues' THEN messageQueues'[channel] ELSE <<>>

\* the sum of a counter over the daily documents stored
RECURSIVE storedTotal(_, _)
storedTotal(docs, marker) ==
    IF docs = <<>> THEN 0
    ELSE (IF marker = "+2" THEN Head(docs).dailyPositiveCount
          ELSE Head(docs).dailyNegativeCount) + storedTotal(Tail(docs), marker)

\* the entries of the sentiment window not older than the window's size
unexpired == {i \in 1..Len(messageWindow) : messageWindow[i].age <= WINDOW_SIZE_MS}

\* the entries among them of one type
unexpiredOf(type) == {i \in unexpired : messageWindow[i].type = type}

\* the step is an evaluation of updateMessageWindow with this type
evaluates(type) ==
    IF type = ""
    THEN WindowTick
    ELSE \E msg \in SentimentInbound :
            markers[msg.message] = type /\ PRIVMSG(msg)

\* how many entries of a sequence name the channel at the position given
entriesFor(seq, position, channel) ==
    Cardinality({i \in 1..Len(seq) : seq[i][position] = channel})

\* nothing entered or left the path from beginHype to the transport
NoDispatch ==
    /\ hypeLog' = hypeLog
    /\ submitted' = submitted
    /\ calls' = calls
    /\ executed' = executed
    /\ sendTimers' = sendTimers
    /\ sent' = sent

----------------------------------------------------------------------------
(* C1: for every channel and threshold T, the T-th copy of an identical
   eligible message, arriving in a window that holds the T-1 copies before it
   while the throttle is open, triggers exactly one emission and leaves the
   window empty. *)
C1_BurstEmitsOnce ==
    [][\A msg \in AllInbound :
        LET channel == channelOf[msg.channel]
        IN (/\ queueOf(channel) = Copies(bodyOf(msg), HYPE_THRESHOLD - 1)
            /\ shouldInvoke
            /\ eligible(msg)
            /\ PRIVMSG(msg))
           => /\ messageQueues'[channel] = <<>>
              /\ hypeLog' = Append(hypeLog, <<channel, bodyOf(msg)>>)]_vars

(* C2: for every channel and threshold T, an identical eligible message
   inserted fewer than T times into an initially empty window calls no
   emission and does not clear the window: the window holds the copies. *)
C2_BelowThresholdSilent ==
    [][\A msg \in AllInbound :
        LET channel == channelOf[msg.channel]
        IN \A k \in 0..(HYPE_THRESHOLD - 2) :
            (/\ queueOf(channel) = Copies(bodyOf(msg), k)
             /\ eligible(msg)
             /\ PRIVMSG(msg))
            => /\ messageQueues'[channel] = Copies(bodyOf(msg), k + 1)
               /\ lastHypeCall' = lastHypeCall
               /\ NoDispatch]_vars

C2_Witness ==
    \E channel \in DOMAIN messageQueues :
        /\ messageQueues[channel] = Copies("POG", HYPE_THRESHOLD - 1)
        /\ lastHypeCall = <<>>
        /\ hypeLog = <<>>

(* C3: two calls of the throttled function for bursts in the same channel,
   the second less than HYPE_THROTTLE after the first, dispatch exactly one
   message: the first call, which the throttle lets pass, prints one line and
   submits one message, the second adds nothing, and every message submitted
   is in the limiter, in a send timer or sent, exactly once. *)
C3_ThrottleSuppression ==
    /\ [](/\ Len(hypeLog) = Len(submitted)
          /\ Len(submitted) = Len(calls) + Len(executed)
          /\ Len(executed) = Len(sendTimers) + Len(sent))
    /\ [][\A msg \in AllInbound :
            LET channel == channelOf[msg.channel]
                burst == burstOf(channel, bodyOf(msg))
            IN /\ (/\ lastHypeCall # <<>>
                   /\ lastHypeCall[1] = channel
                   /\ lastHypeCall[3]
                   /\ hypeCallAge < HYPE_THROTTLE
                   /\ bursts(msg)
                   /\ PRIVMSG(msg))
                  => /\ NoDispatch
                     /\ lastHypeCall' = <<channel, burst[1], FALSE>>
               /\ (/\ bursts(msg)
                   /\ PRIVMSG(msg)
                   /\ lastHypeCall'[3])
                  => /\ hypeLog' = Append(hypeLog, <<channel, burst[1]>>)
                     /\ submitted' = Append(submitted, <<burst[1], channel>>)]_vars

C3_Witness ==
    /\ lastHypeCall # <<>>
    /\ ~lastHypeCall[3]
    /\ hypeAge < HYPE_THROTTLE
    /\ hypeCallAge < hypeAge
    /\ hypeLog = <<<<lastHypeCall[1], "POG">>>>
    /\ sent = <<privmsgLine(lastHypeCall[1], "POG")>>

(* C4: the throttle is one state shared by all channels: two emissions are
   never less than HYPE_THROTTLE apart, whatever their channels, so a burst
   detected in one channel less than HYPE_THROTTLE after an emission for
   another channel emits nothing. *)
C4_GlobalThrottle ==
    [][/\ (hypeLog' # hypeLog)
          => /\ Len(hypeLog') = Len(hypeLog) + 1
             /\ SubSeq(hypeLog', 1, Len(hypeLog)) = hypeLog
             /\ (hypeAge < 0 \/ hypeAge >= HYPE_THROTTLE)
       /\ \A msg \in AllInbound :
            (/\ hypeLog # <<>>
             /\ hypeLog[Len(hypeLog)][1] # channelOf[msg.channel]
             /\ hypeAge < HYPE_THROTTLE
             /\ bursts(msg)
             /\ PRIVMSG(msg))
            => NoDispatch]_vars

C4_Witness ==
    /\ lastHypeCall # <<>>
    /\ ~lastHypeCall[3]
    /\ Len(hypeLog) = 1
    /\ hypeLog[1][1] # lastHypeCall[1]
    /\ hypeCallAge < hypeAge

(* C5: the throttle is non-trailing: a call arriving less than HYPE_THROTTLE
   after the last emission is dropped, and it is never replayed: an emission
   happens only in the step of a new call of the throttled function, with
   that call's arguments, never when a timer fires or time passes. *)
C5_NonTrailing ==
    [][/\ \A msg \in AllInbound :
            (/\ hypeAge >= 0
             /\ hypeAge < HYPE_THROTTLE
             /\ bursts(msg)
             /\ PRIVMSG(msg))
            => /\ NoDispatch
               /\ ~lastHypeCall'[3]
       /\ (hypeLog' # hypeLog)
          => \E msg \in AllInbound :
                /\ bursts(msg)
                /\ PRIVMSG(msg)
                /\ hypeLog' = Append(hypeLog,
                       <<channelOf[msg.channel],
                         burstOf(channelOf[msg.channel], bodyOf(msg))[1]>>)]_vars

C5_Witness ==
    /\ lastHypeCall # <<>>
    /\ ~lastHypeCall[3]
    /\ lastArgs = <<>>
    /\ timerId = -1
    /\ hypeAge >= HYPE_THROTTLE
    /\ Len(hypeLog) = 1

(* C6: the limiter executes the submitted actions in the order of their
   submission, whatever the timing of the submissions: the actions executed
   so far are the first ones submitted, in order, and the lines handed to the
   transport follow the order of execution. *)
C6_LimiterOrder ==
    /\ Len(executed) <= Len(submitted)
    /\ executed = SubSeq(submitted, 1, Len(executed))
    /\ Len(sent) <= Len(executed)
    /\ \A i \in 1..Len(sent) : sent[i] = privmsgLine(executed[i][2], executed[i][1])

C6_Witness ==
    /\ Len(executed) >= 2
    /\ executed[1] # executed[2]
    /\ Len(sent) >= 2
    /\ calls # <<>>

(* C7: two consecutive executions by the limiter are at least wait
   (LIMITER_WAIT) milliseconds apart: a step that executes an action executes
   exactly one, and either it is the first execution or the previous one is
   at least LIMITER_WAIT old. *)
C7_LimiterSpacing ==
    [][(executed' # executed)
       => /\ Len(executed') = Len(executed) + 1
          /\ SubSeq(executed', 1, Len(executed)) = executed
          /\ (execAge < 0 \/ execAge >= LIMITER_WAIT)]_vars

C7_Witness ==
    /\ Len(executed) >= 2
    /\ execAge = 0
    /\ isCalled
    /\ calls # <<>>

(* C8: the limiter loses and repeats nothing: the actions submitted are at
   every moment the actions executed followed by the actions still queued,
   and, the timers firing, the k-th action submitted is eventually
   executed. *)
C8_LimiterLossless ==
    /\ [](submitted = executed \o calls)
    /\ \A k \in 1..MaxSay : (Len(submitted) >= k) ~> (Len(executed) >= k)

C8_Witness ==
    /\ Len(submitted) >= 3
    /\ executed = submitted
    /\ calls = <<>>
    /\ ~isCalled

(* C9: the limiter has at most one invocation in flight: isCalled is set
   exactly while its one timer is armed, a submission made while isCalled is
   set only appends to the queue, and while isCalled is set an action is
   executed only by the timer callback, which clears the flag first. *)
C9_SingleInFlight ==
    /\ [](/\ Len(limiterTimers) <= 1
          /\ isCalled <=> (limiterTimers # <<>>))
    /\ [][/\ \A a \in SayArguments :
                (isCalled /\ Say(a[1], a[2]))
                => /\ calls' = Append(calls, a)
                   /\ UNCHANGED <<isCalled, limiterTimers, executed, execAge,
                                  sendTimers, sent>>
          /\ (isCalled /\ executed' # executed)
             => /\ LimiterTimer
                /\ Head(limiterTimers) = 0]_vars

C9_Witness ==
    /\ isCalled
    /\ Len(limiterTimers) = 1
    /\ Len(calls) >= 2
    /\ Len(executed) >= 1

(* C10: after any sequence of messages and janitor firings, the window of
   every channel holds at most the capacity (MAX_QUEUE_LEN in app.js,
   HYPE_MAX_QUEUE_LEN in part_000) of messages. *)
C10_WindowBounded ==
    \A channel \in DOMAIN messageQueues :
        Len(messageQueues[channel]) <= MaxQueueLen

C10_Witness ==
    /\ variant = HypeDb
    /\ hypeLog # <<>>
    /\ \E channel \in DOMAIN messageQueues :
        /\ Len(messageQueues[channel]) = MaxQueueLen
        /\ messageQueues[channel][1] = "__proto__"
        /\ messageQueues[channel][MaxQueueLen] = "POG"

(* C11: FIFO eviction: a window with capacity K that received, from empty,
   the first j of the pairwise distinct eligible bodies holds the last
   min(j, K) of them, oldest first; after K+1 insertions it holds exactly the
   last K. *)
C11_FifoEviction ==
    \A channel \in DOMAIN messageQueues :
        LET queue == messageQueues[channel]
        IN queue # <<>>
           => LET j == indexOf(queue[Len(queue)])
              IN queue = SubSeq(DistinctBodies, Max(1, j - MaxQueueLen + 1), j)

C11_Witness ==
    /\ variant = HypeDb
    /\ \E channel \in DOMAIN messageQueues :
        messageQueues[channel] = SubSeq(DistinctBodies, 2, MaxQueueLen + 1)

(* C12: a body of length 0, or shorter than the minimum or longer than the
   maximum length, is in no window, whether or not the filter lets it pass;
   a body of exactly the minimum and one of exactly the maximum length are
   appended to the window. *)
C12_LengthRange ==
    /\ [](\A channel \in DOMAIN messageQueues :
            \A i \in 1..Len(messageQueues[channel]) :
                /\ Len(messageQueues[channel][i]) >= MinMsgLen
                /\ Len(messageQueues[channel][i]) <= MaxMsgLen
                /\ Len(messageQueues[channel][i]) > 0)
    /\ [][\A c \in Channels :
            LET channel == channelOf[c]
            IN (/\ nextDistinct(channel) <= Len(DistinctBodies)
                /\ Len(distinctMessage(c).message) \in {MinMsgLen, MaxMsgLen}
                /\ PRIVMSG(distinctMessage(c)))
               => queueAfter(channel)
                    = Append(queueOf(channel), distinctMessage(c).message)]_vars

C12_Witness ==
    /\ handlerExit = "returned"
    /\ \E channel \in DOMAIN messageQueues :
        /\ Len(messageQueues[channel]) >= 2
        /\ Len(messageQueues[channel][1]) = MinMsgLen
        /\ Len(messageQueues[channel][2]) = MaxMsgLen

(* C13: handling a message whose body is shorter than the minimum or longer
   than the maximum length leaves the window of every channel as it was,
   nothing evicted and nothing appended, also when the window is full. *)
C13_OutOfRangeNoEffect ==
    [][\A msg \in OutOfRange :
        PRIVMSG(msg)
        => \A channel \in ChannelNames : queueAfter(channel) = queueOf(channel)]_vars

(* C14: filterEnqueueMessage rejects a message exactly when the sender is a
   moderator, or the sender's lower-cased name is in the ignore list, or the
   body starts with '!', or the body matches the URL pattern (as README.md
   writes it); every other message passes. *)
C14_FilterRule ==
    [][\A msg \in Untagged :
        (variant = HypeDb /\ PRIVMSG(msg))
        => ((handlerExit' = "filtered") <=> excluded(msg))]_vars

(* C15: for an inbound event whose sender is a moderator or ignored, or whose
   body as delivered starts with '!' or contains a URL, with or without emote
   tags, the handler of the program that has the filter leaves every window
   as it was and emits nothing. *)
C15_ExcludedNeverEnters ==
    [][\A msg \in Untagged \cup Tagged :
        (variant = HypeDb /\ excluded(msg) /\ PRIVMSG(msg))
        => /\ \A channel \in ChannelNames : queueAfter(channel) = queueOf(channel)
           /\ NoDispatch]_vars

(* C16: a firing of the window janitor replaces the whole collection of
   windows by an empty one, unconditionally: it can fire whenever its
   interval has elapsed, and right after it no channel has a non-empty
   window, while the throttle, the limiter and the transport are as they
   were. *)
C16_JanitorClearsAll ==
    /\ [](janitorTimer = 0 => ENABLED Janitor)
    /\ [][(janitorTimer = 0 /\ janitorTimer' = HYPE_DEQUEUE_TIMER)
          => /\ \A channel \in ChannelNames : queueAfter(channel) = <<>>
             /\ UNCHANGED <<throttleVars, limiterVars, transportVars, hypeLog>>]_vars

C16_Witness ==
    /\ janitorTimer = HYPE_DEQUEUE_TIMER
    /\ DOMAIN messageQueues = {}
    /\ hypeAge = 0
    /\ isCalled

(* C17: handling a message for a channel, whether it is pushed, evicts an
   entry, or completes a burst that empties the window, leaves the window of
   every other channel as it was. *)
C17_BurstResetsOneChannel ==
    [][\A msg \in AllInbound :
        PRIVMSG(msg)
        => \A other \in ChannelNames \ {channelOf[msg.channel]} :
            /\ (other \in DOMAIN messageQueues') <=> (other \in DOMAIN messageQueues)
            /\ queueAfter(other) = queueOf(other)]_vars

C17_Witness ==
    /\ lastHypeCall # <<>>
    /\ hypeCallAge = 0
    /\ handlerExit = "returned"
    /\ queueOf(lastHypeCall[1]) = <<>>
    /\ \E other \in DOMAIN messageQueues :
        /\ other # lastHypeCall[1]
        /\ messageQueues[other] # <<>>

(* C18: with DRY_RUN true nothing is dispatched to the transport: chat.send
   is never called and no send is pending, whatever the events; detection,
   the throttle and the limiter proceed as usual: every hype line is
   submitted, the submitted messages are those the limiter ran followed by
   those it holds, and two runs of the limiter are LIMITER_WAIT apart. *)
C18_DryRunSilent ==
    /\ [](/\ sent = <<>>
          /\ sendTimers = <<>>
          /\ submitted = [i \in 1..Len(hypeLog) |-> <<hypeLog[i][2], hypeLog[i][1]>>]
          /\ submitted = executed \o calls)
    /\ [][(executed' # executed)
          => (execAge < 0 \/ execAge >= LIMITER_WAIT)]_vars

C18_Witness ==
    /\ dryRun
    /\ Len(hypeLog) >= 2
    /\ executed = submitted
    /\ Len(executed) >= 2
    /\ sent = <<>>

(* C19: a statistics write that fails or never completes blocks nothing:
   while the database is failing or stalled, an eligible message is still
   pushed to its window and detected, a burst the throttle lets pass still
   prints its line and is submitted to the limiter, and every submitted
   message is queued, waiting for its send or sent. *)
C19_StatsNeverBlock ==
    /\ [](Len(submitted) = Len(calls) + Len(sendTimers) + Len(sent))
    /\ [][\A msg \in StatsInbound :
            LET channel == channelOf[msg.channel]
                body == bodyOf(msg)
            IN (/\ variant = HypeDb
                /\ db # "up"
                /\ eligible(msg)
                /\ PRIVMSG(msg))
               => /\ statsOutcome' \in {"error", "pending"}
                  /\ IF bursts(msg)
                     THEN /\ queueAfter(channel) = <<>>
                          /\ shouldInvoke
                             => /\ hypeLog' = Append(hypeLog, <<channel, body>>)
                                /\ submitted' = Append(submitted, <<body, channel>>)
                     ELSE queueAfter(channel) = Append(queueOf(channel), body)]_vars

C19_Witness ==
    /\ db # "up"
    /\ statsOutcome \in {"error", "pending"}
    /\ handlerExit = "returned"
    /\ hypeAge = 0
    /\ Len(hypeLog) = 1
    /\ Len(submitted) = 1

(* C20: an inbound event without a body (msg.message undefined) is treated
   as ineligible: handling it changes no window, emits nothing, and no error
   escapes the handler. *)
C20_MalformedIsIneligible ==
    [][\A msg \in Malformed :
        (msg.message = undefined /\ PRIVMSG(msg))
        => /\ \A channel \in ChannelNames : queueAfter(channel) = queueOf(channel)
           /\ NoDispatch
           /\ handlerExit' # "TypeError"]_vars

(* C21: handling a message is one atomic step up to the limiter: when an
   inbound message completes a burst and the throttle lets the call through,
   the hype message has been submitted to chat.say by the time the handler
   ends, so no disposal, limiter timer or other handler runs in between. *)
C21_HandlerAtomic ==
    [][\A msg \in SystemInbound :
        (bursts(msg) /\ shouldInvoke /\ PRIVMSG(msg))
        => submitted' =
              Append(submitted, <<bodyOf(msg), channelOf[msg.channel]>>)]_vars

(* C22: the daily reset stores the totals the counters hold when they are
   zeroed: at the step of resetDailyTallies that sets the counters to zero,
   the document stored carries the values the counters held just before, so
   the stored documents and the running counters account for every message
   counted, each once. *)
C22_ResetPersistsPreResetTotals ==
    [][(resetInFlight # <<>> /\ db = "up" /\ ResetSettled)
       => /\ dailyDocs'[Len(dailyDocs')].dailyPositiveCount = dailyPositiveCount
          /\ dailyDocs'[Len(dailyDocs')].dailyNegativeCount = dailyNegativeCount
          /\ storedTotal(dailyDocs', "+2") + dailyPositiveCount' = tallied'["+2"]
          /\ storedTotal(dailyDocs', "-2") + dailyNegativeCount' = tallied'["-2"]]_vars

(* C23: every evaluation of updateMessageWindow, by a message or by the
   interval, prunes before it counts: afterwards the stored sequence holds
   the entries that were not older than WINDOW_SIZE_MS, in their order,
   followed by the new entry, and no expired entry; the score is computed
   from these entries alone. *)
C23_PrunedBeforeAggregation ==
    [][\A type \in {"+2", "-2", ""} :
        evaluates(type)
        => /\ \A i \in 1..Len(messageWindow') :
                 messageWindow'[i].age <= WINDOW_SIZE_MS
           /\ Len(messageWindow') = Cardinality(unexpired) + 1
           /\ messageWindow'[Len(messageWindow')] = [age |-> 0, type |-> type]
           /\ \A i \in unexpired :
                 \E j \in 1..(Len(messageWindow') - 1) :
                    messageWindow'[j] = messageWindow[i]
           /\ movingAverage'.recorded =
                 2 * (Cardinality(unexpiredOf("+2")) + (IF type = "+2" THEN 1 ELSE 0))
                 - 2 * (Cardinality(unexpiredOf("-2")) + (IF type = "-2" THEN 1 ELSE 0))]_vars

\* messages were counted and the window holds none of their entries any more:
\* an evaluation has pruned them
C23_Witness ==
    /\ tallied["+2"] + tallied["-2"] > 0
    /\ messageWindow # <<>>
    /\ \A i \in 1..Len(messageWindow) : messageWindow[i].type = ""

(* C24: the score an evaluation prints and hands to recordMovingAverage is
   twice the number of '+2' entries minus twice the number of '-2' entries
   among the entries left after pruning; an evaluation by the interval adds
   to neither number, so its score is that of the unexpired entries it
   found. *)
C24_ScoreIsTwicePositiveMinusNegative ==
    [][\A type \in {"+2", "-2", ""} :
        evaluates(type)
        => LET positive == {i \in 1..Len(messageWindow') :
                               messageWindow'[i].type = "+2"}
               negative == {i \in 1..Len(messageWindow') :
                               messageWindow'[i].type = "-2"}
               score == 2 * Cardinality(positive) - 2 * Cardinality(negative)
           IN /\ movingAverage'.recorded = score
              /\ \E sign \in {"+", "-"} :
                    movingAverage'.line =
                        "Moving Average: " \o sign \o ToString(score)
              /\ type = ""
                 => score = 2 * Cardinality(unexpiredOf("+2"))
                            - 2 * Cardinality(unexpiredOf("-2"))]_vars

\* two '-2' messages in the window: the score is -4
C24_Witness ==
    /\ movingAverage.recorded = -4
    /\ Len(messageWindow) = 2
    /\ \A i \in 1..2 : messageWindow[i].type = "-2"

(* C25: the filter is pure: whenever and however often a message is handled,
   the verdict of filterEnqueueMessage is the one its inputs alone determine,
   evaluating it leaves the regular expression's lastIndex as it was, and a
   handler that ends at the filter changes no window, no counter, nothing of
   the throttle, of the limiter or of the transport. *)
C25_FilterIsPure ==
    [][\A msg \in PureInbound :
        PRIVMSG(msg)
        => /\ lastIndex' = lastIndex
           /\ (handlerExit' = "filtered")
                 = (IF variant = Readme
                    THEN readmeFilterEnqueueMessage(channelOf[msg.channel],
                             msg.username, msg.message, msg.isModerator)
                    ELSE filterEnqueueMessage(channelOf[msg.channel],
                             msg.username, msg.message, msg.isModerator))
           /\ handlerExit' = "filtered"
              => /\ \A channel \in ChannelNames :
                       queueAfter(channel) = queueOf(channel)
                 /\ NoDispatch
                 /\ UNCHANGED <<throttleVars, limiterVars, sentimentVars>>]_vars

\* a link has been rejected while the window held messages and a hype
\* message had gone out
C25_Witness ==
    /\ handlerExit = "filtered"
    /\ lastIndex = 0
    /\ queueOf("squishy_life") # <<>>
    /\ sent # <<>>

\* the positions of a body among the first n of the window
occurrences(queue, body, n) == {i \in 1..n : queue[i] = body}

\* the bodies that occur HYPE_THRESHOLD times in the window
reaching(queue) ==
    {queue[i] : i \in {j \in 1..Len(queue) :
        Cardinality(occurrences(queue, queue[j], Len(queue))) >= HYPE_THRESHOLD}}

\* the position at which a body occurs for the HYPE_THRESHOLD-th time
reachedAt(queue, body) ==
    CHOOSE n \in 1..Len(queue) :
        /\ queue[n] = body
        /\ Cardinality(occurrences(queue, body, n)) = HYPE_THRESHOLD

(* C26: one invocation of detectHype makes at most one call of the throttled
   emit function: none when no body occurs HYPE_THRESHOLD times in the
   window, and otherwise one, for the body whose HYPE_THRESHOLD-th occurrence
   comes first from the front of the window; a body that reaches the
   threshold further back is not emitted. *)
C26_FirstBodyWins ==
    [][DetectHype("squishy_life")
       => LET queue == queueOf("squishy_life")
          IN IF reaching(queue) = {}
             THEN UNCHANGED <<messageQueues, lastHypeCall, hypeLog, awaiting,
                              submitted>>
             ELSE LET first == CHOOSE body \in reaching(queue) :
                                  \A other \in reaching(queue) :
                                     reachedAt(queue, body) <= reachedAt(queue, other)
                  IN /\ lastHypeCall' = <<"squishy_life", first, TRUE>>
                     /\ Len(hypeLog') + Len(awaiting') = 1
                     /\ \A i \in 1..Len(hypeLog') :
                           hypeLog'[i] = <<"squishy_life", first>>
                     /\ \A i \in 1..Len(awaiting') :
                           awaiting'[i] = <<"squishy_life", first>>]_vars

\* "B" was emitted although "A" reaches the threshold in the window as well:
\* detectHype stopped at the body that got there first
C26_Witness ==
    /\ lastHypeCall = <<"squishy_life", "B", TRUE>>
    /\ sent = <<privmsgLine("squishy_life", "B")>>
    /\ messageQueues["squishy_life"] = <<>>

(* C27: a detected burst clears the channel's window entirely also when the
   throttle drops the emit call: after the handler the window is empty, with
   none of the burst's copies and none of the other messages it held, and
   nothing is printed, submitted or sent. *)
C27_SuppressedBurstClears ==
    [][\A msg \in Inbound({"#squishy_life"}, WindowBodies, {FALSE}) :
        (bursts(msg) /\ ~shouldInvoke /\ PRIVMSG(msg))
        => /\ queueAfter(channelOf[msg.channel]) = <<>>
           /\ lastHypeCall' = <<channelOf[msg.channel], bodyOf(msg), FALSE>>
           /\ NoDispatch]_vars

\* a burst has just been dropped by the throttle, after one that was emitted,
\* and the window is empty
C27_Witness ==
    /\ Len(lastHypeCall) = 3
    /\ ~lastHypeCall[3]
    /\ hypeCallAge = 0
    /\ Len(hypeLog) = 1
    /\ messageQueues["squishy_life"] = <<>>

(* C28: the message sent for a burst carries the burst's body as its text and
   is addressed to the channel of the burst: the handler that detects a burst
   with the throttle open prints and submits that body for that channel, and
   every line handed to chat.send is the PRIVMSG for the channel and the body
   of the emission it belongs to, in the order of the emissions. *)
C28_DispatchCarriesBurst ==
    [][/\ \A msg \in DispatchInbound :
            (bursts(msg) /\ shouldInvoke /\ PRIVMSG(msg))
            => /\ hypeLog' = Append(hypeLog, <<channelOf[msg.channel], bodyOf(msg)>>)
               /\ submitted' =
                     Append(submitted, <<bodyOf(msg), channelOf[msg.channel]>>)
               /\ "#" \o channelOf[msg.channel] = msg.channel
       /\ Len(sent') <= Len(hypeLog')
       /\ \A i \in 1..Len(sent') :
            sent'[i] = "PRIVMSG #" \o hypeLog'[i][1] \o " :" \o hypeLog'[i][2]]_vars

\* two bursts of different bodies in different channels have been sent
C28_Witness ==
    sent = <<"PRIVMSG #squishy_life :Kappa", "PRIVMSG #northernlion :POG">>

(* C29: an emit call that passes the throttle records one engagement for the
   bot's own name on the channel of the burst and then submits one message
   for it, the record first: the handler makes the one recordUserChatStats
   call and the message is submitted in the same handler (part_000) or by the
   continuation of that call (README), so that every engagement recorded has
   exactly one message submitted or still to be submitted; an emit call the
   throttle drops records nothing and submits nothing. *)
C29_RecordThenSubmit ==
    [][/\ \A msg \in ReadmeInbound :
            (bursts(msg) /\ PRIVMSG(msg))
            => IF shouldInvoke
               THEN /\ engaged' =
                          Append(engaged, <<channelOf[msg.channel], TWITCH_USERNAME>>)
                    /\ submitted' \o [i \in 1..Len(awaiting') |->
                                         <<awaiting'[i][2], awaiting'[i][1]>>]
                          = (submitted \o [i \in 1..Len(awaiting) |->
                                             <<awaiting[i][2], awaiting[i][1]>>])
                             \o <<<<bodyOf(msg), channelOf[msg.channel]>>>>
               ELSE UNCHANGED <<engaged, submitted, awaiting>>
       /\ \A i \in 1..MaxHype :
            StatsSettled(i)
            => /\ submitted' = Append(submitted, <<awaiting[i][2], awaiting[i][1]>>)
               /\ UNCHANGED engaged
       /\ \A channel \in ChannelNames :
            entriesFor(engaged', 1, channel)
              = entriesFor(submitted', 2, channel) + entriesFor(awaiting', 1, channel)]_vars

\* one burst was emitted, recorded and submitted, and a later burst in the
\* other channel was dropped by the throttle and left no trace
C29_Witness ==
    /\ engaged = <<<<"squishy_life", TWITCH_USERNAME>>>>
    /\ submitted = <<<<"POG", "squishy_life">>>>
    /\ awaiting = <<>>
    /\ lastHypeCall = <<"northernlion", "POG", FALSE>>

(* C30: a call of the limited function on an idle limiter (isCalled clear, no
   call queued) executes its action within the call and sets isCalled; the
   flag is cleared only by the timer callback, wait (LIMITER_WAIT)
   milliseconds after the execution; the callback executes the next queued
   action, if there is one, and arms the timer again, and otherwise leaves
   the limiter idle; the timers firing, a busy limiter becomes idle with an
   empty queue. *)
C30_IdleRunsAtOnceAndDrains ==
    /\ [][/\ \A a \in SayArguments :
                (~isCalled /\ calls = <<>> /\ Say(a[1], a[2]))
                => /\ executed' = Append(executed, a)
                   /\ isCalled'
                   /\ calls' = <<>>
                   /\ limiterTimers' = <<LIMITER_WAIT>>
          /\ (isCalled /\ ~isCalled')
             => /\ LimiterTimer
                /\ calls = <<>>
          /\ LimiterTimer
             => /\ execAge = LIMITER_WAIT
                /\ IF calls # <<>>
                   THEN /\ executed' = Append(executed, Head(calls))
                        /\ calls' = Tail(calls)
                        /\ isCalled'
                        /\ limiterTimers' = <<LIMITER_WAIT>>
                   ELSE /\ ~isCalled'
                        /\ calls' = <<>>
                        /\ limiterTimers' = <<>>
                        /\ executed' = executed]_vars
    /\ isCalled ~> (~isCalled /\ calls = <<>>)

\* two actions were executed, the second one by the timer callback of the
\* first, and the callback of the second found the queue empty
C30_Witness ==
    /\ ~isCalled
    /\ calls = <<>>
    /\ limiterTimers = <<>>
    /\ Len(submitted) = 2
    /\ executed = submitted
    /\ execAge = LIMITER_WAIT

(* C31: a limiter action that raises while it is executed neither stalls the
   limiter nor reaches the message handler: no PRIVMSG handler ends with the
   action's exception, and whenever the busy flag is set the timer that
   clears it after wait (LIMITER_WAIT) milliseconds is pending, so that the
   actions submitted afterwards are executed in their turn. *)
C31_RaisingActionIsContained ==
    /\ handlerExit # "Error"
    /\ isCalled => limiterTimers # <<>>

(* C32: after every handled message and every firing of the janitor, no body
   occurs HYPE_THRESHOLD times or more in the window of any channel. *)
C32_NoBodyAtThreshold ==
    \A channel \in DOMAIN messageQueues :
        reaching(messageQueues[channel]) = {}

(* C33: whenever detectHype calls the throttled emit function, the body it
   passes is the body the enclosing enqueueChatMessage has just pushed: that
   body is the last of the window and the only one that occurs
   HYPE_THRESHOLD times in it; a handler whose pushed body does not reach the
   threshold makes no call. *)
C33_EmittedBodyIsAppended ==
    [][\A msg \in DispatchInbound :
          LET channel == channelOf[msg.channel]
              window == pushed(queueOf(channel), bodyOf(msg))
          IN PRIVMSG(msg)
             => IF bursts(msg)
                THEN /\ lastHypeCall'[1] = channel
                     /\ lastHypeCall'[2] = bodyOf(msg)
                     /\ hypeCallAge' = 0
                     /\ window[Len(window)] = bodyOf(msg)
                     /\ reaching(window) = {bodyOf(msg)}
                ELSE /\ UNCHANGED lastHypeCall
                     /\ eligible(msg) => reaching(window) = {}]_vars

\* a burst of "Kappa" was detected on its last copy and emitted, and the
\* window cleared
C33_Witness ==
    /\ lastHypeCall = <<"squishy_life", "Kappa", TRUE>>
    /\ hypeCallAge = 0
    /\ hypeLog # <<>>
    /\ messageQueues["squishy_life"] = <<>>
    /\ Len(sent) + Len(sendTimers) = 1

(* C34: hype messages reach the limiter, and so the transport, in the order
   in which their bursts passed the throttle, whatever the order in which the
   statistics writes awaited by sendHypeMessage settle: the i-th message
   submitted is for the channel of the i-th burst recorded. *)
C34_HypeOrderPreserved ==
    /\ Len(submitted) <= Len(engaged)
    /\ \A i \in 1..Len(submitted) : submitted[i][2] = engaged[i][1]

(* C35: the handler treats a message sent under the bot's own name like any
   other sender's: unless the filter rejects it (here: the sender is flagged
   a moderator, in the programs that have a filter) its body is pushed onto
   the window of the channel and counted by detectHype, which emits and
   clears the window when that body reaches the threshold; when the filter
   rejects it the window is left alone. *)
C35_OwnMessagesCount ==
    [][\A msg \in OwnInbound :
          LET channel == channelOf[msg.channel]
              window == pushed(queueOf(channel), msg.message)
          IN PRIVMSG(msg)
             => IF variant = AppJs \/ ~excluded(msg)
                THEN IF Cardinality(occurrences(window, msg.message, Len(window)))
                          >= HYPE_THRESHOLD
                     THEN /\ queueAfter(channel) = <<>>
                          /\ lastHypeCall'[2] = msg.message
                          /\ hypeCallAge' = 0
                     ELSE /\ queueAfter(channel) = window
                          /\ window[Len(window)] = msg.message
                          /\ UNCHANGED lastHypeCall
                ELSE /\ queueAfter(channel) = queueOf(channel)
                     /\ UNCHANGED lastHypeCall]_vars

\* the bot's own messages, the only ones there are, have reached the
\* threshold in a program with a filter, and the hype was emitted
C35_Witness ==
    /\ variant = HypeDb
    /\ hypeLog # <<>>
    /\ lastHypeCall = <<"squishy_life", "POG", TRUE>>
    /\ handlerExit = "returned"
    /\ messageQueues["squishy_life"] = <<"POG">>

(* C36: a firing of the janitor changes the map of windows and nothing else
   of the emission path: the queue, the busy flag and the timer of the
   limiter and the pending sends are as before, so the calls queued are
   still dispatched, and the throttle keeps
   its last call and its last invocation, so a throttle that was closed is
   still closed. *)
C36_JanitorFrame ==
    [][(janitorTimer = 0 /\ janitorTimer' = HYPE_DEQUEUE_TIMER)
       => /\ calls' = calls
          /\ isCalled' = isCalled
          /\ limiterTimers' = limiterTimers
          /\ sendTimers' = sendTimers
          /\ lastCallAge' = lastCallAge
          /\ lastInvokeAge' = lastInvokeAge
          /\ timerId' = timerId
          /\ shouldInvoke' = shouldInvoke
          /\ submitted' = submitted
          /\ executed' = executed
          /\ sent' = sent]_vars

\* the janitor has fired on a busy limiter with a call queued and a closed
\* throttle, and all three are as they were
C36_Witness ==
    /\ janitorTimer = HYPE_DEQUEUE_TIMER
    /\ hypeAge = 0
    /\ DOMAIN messageQueues = {}
    /\ ~shouldInvoke
    /\ isCalled
    /\ calls # <<>>
    /\ limiterTimers # <<>>

(* C37: when the write of resetDailyTallies fails, the function logs the
   error and returns: the daily counters keep their values, nothing is
   stored and no exception leaves the function; the counts are carried into
   the next reset, so that as long as no document has been stored the
   counters hold every message counted, and the document a run of
   resetDailyTallies hands to insertOne carries the counters as they are. *)
C37_FailedResetKeepsCounters ==
    /\ [][(resetInFlight # <<>> /\ db = "failing" /\ ResetSettled)
          => /\ dailyPositiveCount' = dailyPositiveCount
             /\ dailyNegativeCount' = dailyNegativeCount
             /\ dailyDocs' = dailyDocs
             /\ resetErrors' = resetErrors + 1
             /\ uncaught' = uncaught
             /\ handlerExit' = handlerExit]_vars
    /\ [](dailyDocs = <<>>
            => /\ dailyPositiveCount = tallied["+2"]
               /\ dailyNegativeCount = tallied["-2"])
    /\ [][CronJob
          => /\ resetInFlight'[Len(resetInFlight')].dailyPositiveCount
                  = dailyPositiveCount
             /\ resetInFlight'[Len(resetInFlight')].dailyNegativeCount
                  = dailyNegativeCount]_vars

\* a reset failed and was logged, and the reset after it stored the two
\* messages counted
C37_Witness ==
    /\ resetErrors = 1
    /\ Len(dailyDocs) = 1
    /\ dailyDocs[1].dailyPositiveCount = 1
    /\ dailyDocs[1].dailyNegativeCount = 1
    /\ tallied = [m \in {"+2", "-2"} |-> 1]
    /\ dailyPositiveCount = 0
    /\ dailyNegativeCount = 0

(* C38: between the callbacks of the event loop the limiter is never stuck:
   whenever calls are queued the busy flag is set and exactly one timer that
   clears it is pending, and the limiter never has more than one such timer
   pending. *)
C38_LimiterNeverStuck ==
    /\ calls # <<>> => (isCalled /\ Len(limiterTimers) = 1)
    /\ Len(limiterTimers) <= 1
    /\ limiterTimers # <<>> => limiterTimers[1] \in 0..LIMITER_WAIT

\* three calls are queued behind the one that was run, the flag is set and
\* the one timer has run down and is about to fire
C38_Witness ==
    /\ Len(calls) = 3
    /\ Len(executed) = 1
    /\ isCalled
    /\ limiterTimers = <<0>>

====
